---- MODULE Spec2Model ----
(***************************************************************************)
(* Grid A* PCB router (rust_router/src/lib.rs): the obstacle map, the      *)
(* batch single-trace search GridRouter.route_multi and the resumable      *)
(* VisualRouter, as a state machine.                                       *)
(*                                                                         *)
(* Representation choices:                                                 *)
(*  - a u64 key is kept as the tuple of its bit fields (the packing is a   *)
(*    concatenation of fixed-width fields, so the tuple of the masked      *)
(*    fields is the key); the fields are computed with the code's masks.   *)
(*  - Option<Vec<..>> is a sequence, None being <<>> (a Some(path) always  *)
(*    holds the goal cell, so it is never empty).                          *)
(*  - i32 sums wrap modulo 2^32 (overflow checks off, as in a release      *)
(*    build of the extension) and every wrap is recorded in an `overflow`  *)
(*    flag of the search state.                                            *)
(*  - h_weight (f32) is kept in halves: h_weight2 = 2 is 1.0, 3 is 1.5.    *)
(***************************************************************************)
EXTENDS Integers, Sequences, FiniteSets, TLC

VARIABLES
    num_layers,            \* GridObstacleMap.num_layers
    blocked_cells,         \* layer -> set of pack_xy keys
    blocked_vias,          \* set of pack_xy keys
    stub_proximity,        \* pack_xy key -> cost (a partial map)
    bga_zones,             \* sequence of <<min_gx, min_gy, max_gx, max_gy>>
    allowed_cells,         \* set of pack_xy keys
    source_target_cells,   \* layer -> set of pack_xy keys
    via_cost,              \* GridRouter.via_cost / VisualRouter.via_cost
    h_weight2,             \* twice GridRouter.h_weight / VisualRouter.h_weight
    gr,                    \* the last GridRouter.route_multi call and what it returned
    vr,                    \* the VisualRouter's fields
    vr_call,               \* the arguments of the last VisualRouter.init call
    snap,                  \* the SearchSnapshot the last VisualRouter.step returned
    vr_step,               \* the num_iterations argument of the last VisualRouter.step call
    dp,                    \* the last DiffPairRouter.route_diff_pair call and what it returned
    map_op                 \* the last obstacle-map call recorded: its name and arguments

map_vars == <<num_layers, blocked_cells, blocked_vias, stub_proximity, bga_zones,
              allowed_cells, source_target_cells>>
cost_vars == <<via_cost, h_weight2>>
visual_vars == <<vr, vr_call, snap, vr_step>>
vars == <<num_layers, blocked_cells, blocked_vias, stub_proximity, bga_zones,
          allowed_cells, source_target_cells, via_cost, h_weight2, gr, vr,
          vr_call, snap, vr_step, dp, map_op>>

(***************************************************************************)
(* Program constants                                                       *)
(***************************************************************************)
ORTHO_COST == 1000
DIAG_COST == 1414
I32_MAX == 2147483647
I32_MIN == -I32_MAX - 1

\* DIRECTIONS: E, NE, N, NW, W, SW, S, SE
DIRECTIONS ==
    << <<1, 0>>, <<1, -1>>, <<0, -1>>, <<-1, -1>>,
       <<-1, 0>>, <<-1, 1>>, <<0, 1>>, <<1, 1>> >>

(***************************************************************************)
(* 32-bit arithmetic                                                       *)
(***************************************************************************)
\* a + b leaves the i32 range
AddOverflows(a, b) ==
    \/ (b > 0 /\ a > I32_MAX - b)
    \/ (b < 0 /\ a < I32_MIN - b)

\* a + b on i32, wrapping modulo 2^32
WrappingAdd(a, b) ==
    IF b > 0 /\ a > I32_MAX - b THEN (a - I32_MAX - 1) + (b - I32_MAX - 1)
    ELSE IF b < 0 /\ a < I32_MIN - b THEN (a + I32_MAX + 1) + (b + I32_MAX + 1)
    ELSE a + b

Abs(n) == IF n < 0 THEN -n ELSE n
Min(a, b) == IF a < b THEN a ELSE b

(***************************************************************************)
(* Coordinate codec                                                        *)
(***************************************************************************)
\* (g as u64) & 0xFFFFFFFF: the 32-bit two's complement pattern of an i32,
\* kept as its high and low 16 bits
U32Bits(g) == <<(g \div 65536) % 65536, g % 65536>>

pack_xy(gx, gy) == <<U32Bits(gx), U32Bits(gy)>>

GridState(gx, gy, layer) == [gx |-> gx, gy |-> gy, layer |-> layer]

\* (x << 28) | (y << 8) | l with x, y masked to 20 bits
as_key(s) == <<s.gx % 1048576, s.gy % 1048576, s.layer>>

\* faulty variant: the stored field is returned as it is
SignExtend20Missing(v) == v

\* x | !0xFFFFF when bit 19 is set
SignExtend20(v) == IF v >= 524288 THEN v - 1048576 ELSE v

\* the unpacking at the head of reconstruct_path's loop
UnpackKey(key) == <<SignExtend20(key[1]), SignExtend20(key[2]), key[3]>>

(***************************************************************************)
(* Obstacle map: queries                                                   *)
(***************************************************************************)
\* faulty variant: the zone's bounds taken as exclusive
InZoneExclusive(gx, gy, z) == gx > z[1] /\ gx < z[3] /\ gy > z[2] /\ gy < z[4]

InZone(gx, gy, z) == gx >= z[1] /\ gx <= z[3] /\ gy >= z[2] /\ gy <= z[4]

\* faulty variant: allowed-cells consulted before the hard block
is_blocked_allowed_first(gx, gy, layer) ==
    IF layer >= num_layers THEN TRUE
    ELSE LET key == pack_xy(gx, gy)
             in_bga_zone == \E i \in 1..Len(bga_zones) : InZone(gx, gy, bga_zones[i])
         IN  IF in_bga_zone /\ key \in allowed_cells THEN FALSE
             ELSE IF key \in blocked_cells[layer]
                  THEN ~(key \in source_target_cells[layer])
                  ELSE in_bga_zone

is_blocked(gx, gy, layer) ==
    IF layer >= num_layers THEN TRUE
    ELSE LET key == pack_xy(gx, gy)
             in_bga_zone == \E i \in 1..Len(bga_zones) : InZone(gx, gy, bga_zones[i])
             in_blocked_cells == key \in blocked_cells[layer]
         IN  IF in_blocked_cells
             THEN IF key \in source_target_cells[layer] THEN FALSE ELSE TRUE
             ELSE IF in_bga_zone
                  THEN IF key \in allowed_cells THEN FALSE ELSE TRUE
                  ELSE FALSE

\* the loop returns at the first zone that holds the position
RECURSIVE ViaZoneScan(_, _, _)
ViaZoneScan(gx, gy, i) ==
    IF i > Len(bga_zones) THEN FALSE
    ELSE IF InZone(gx, gy, bga_zones[i])
         THEN ~(pack_xy(gx, gy) \in allowed_cells)
         ELSE ViaZoneScan(gx, gy, i + 1)

\* faulty variant: only the first zone is looked at
is_via_blocked_first_zone(gx, gy) ==
    IF pack_xy(gx, gy) \in blocked_vias THEN TRUE
    ELSE /\ Len(bga_zones) > 0
         /\ InZone(gx, gy, bga_zones[1])
         /\ ~(pack_xy(gx, gy) \in allowed_cells)

is_via_blocked(gx, gy) ==
    IF pack_xy(gx, gy) \in blocked_vias THEN TRUE
    ELSE ViaZoneScan(gx, gy, 1)

get_stub_proximity_cost(gx, gy) ==
    LET key == pack_xy(gx, gy)
    IN  IF key \in DOMAIN stub_proximity THEN stub_proximity[key] ELSE 0

(***************************************************************************)
(* Single-trace A*: the pieces GridRouter and VisualRouter both contain    *)
(***************************************************************************)
\* (min_h as f32 * h_weight) as i32: the cast truncates toward zero and
\* saturates.  i32::MAX as f32 is 2^31, so with h_weight >= 1 it comes back
\* as i32::MAX; the other values met are below 2^24 and exact in f32.
ScaleByWeight(min_h) ==
    IF min_h = I32_MAX THEN I32_MAX
    ELSE IF min_h >= 0 THEN (min_h * h_weight2) \div 2
    ELSE -(((-min_h) * h_weight2) \div 2)

RECURSIVE MinOverTargets(_, _, _, _)
MinOverTargets(state, targets, i, min_h) ==
    IF i > Len(targets) THEN min_h
    ELSE LET target == targets[i]
             dx == Abs(state.gx - target.gx)
             dy == Abs(state.gy - target.gy)
             diag == Min(dx, dy)
             orth == Abs(dx - dy)
             h0 == diag * DIAG_COST + orth * ORTHO_COST
             h == IF state.layer # target.layer THEN h0 + via_cost ELSE h0
         IN  MinOverTargets(state, targets, i + 1, Min(min_h, h))

\* targets: a sequence of GridState
heuristic_to_targets(state, targets) ==
    ScaleByWeight(MinOverTargets(state, targets, 1, I32_MAX))

\* faulty variant: entries leave the heap in push order, whatever their f_score
EntryBeforeFifo(a, b) == a.counter < b.counter

\* OpenEntry::cmp, reversed for the max-heap: lowest f_score first, then
\* lowest counter
EntryBefore(a, b) ==
    \/ a.f_score < b.f_score
    \/ (a.f_score = b.f_score /\ a.counter < b.counter)

\* BinaryHeap::pop
HeapTop(open_set) ==
    CHOOSE e \in open_set : \A o \in open_set : o = e \/ EntryBefore(e, o)

MapPut(m, k, v) == (k :> v) @@ m

EmptyMap == [x \in {} |-> 0]

\* the search state: open_set, g_costs, parents, closed, counter
\* (overflow notes whether an i32 sum wrapped)
EmptySearch ==
    [open_set |-> {}, g_costs |-> EmptyMap, parents |-> EmptyMap,
     closed |-> {}, counter |-> 0, overflow |-> FALSE]

\* "for (gx, gy, layer) in sources": push each source with g = 0
RECURSIVE PushSources(_, _, _, _)
PushSources(st, sources, targets, i) ==
    IF i > Len(sources) THEN st
    ELSE LET state == sources[i]
             h == heuristic_to_targets(state, targets)
             entry == [f_score |-> h, g_score |-> 0, state |-> state,
                       counter |-> st.counter]
         IN  PushSources([st EXCEPT !.open_set = @ \cup {entry},
                                    !.counter = @ + 1,
                                    !.g_costs = MapPut(@, as_key(state), 0)],
                         sources, targets, i + 1)

\* faulty variant: the counter is not advanced after a push
RelaxSameCounter(st, current_key, neighbor, new_g, g_overflow, targets) ==
    LET neighbor_key == as_key(neighbor)
        existing_g == IF neighbor_key \in DOMAIN st.g_costs
                      THEN st.g_costs[neighbor_key] ELSE I32_MAX
        h == heuristic_to_targets(neighbor, targets)
        f == WrappingAdd(new_g, h)
    IN  IF new_g < existing_g
        THEN [st EXCEPT !.g_costs = MapPut(@, neighbor_key, new_g),
                        !.parents = MapPut(@, neighbor_key, current_key),
                        !.open_set = @ \cup {[f_score |-> f, g_score |-> new_g,
                                             state |-> neighbor,
                                             counter |-> st.counter]},
                        !.overflow = @ \/ g_overflow \/ AddOverflows(new_g, h)]
        ELSE [st EXCEPT !.overflow = @ \/ g_overflow]

\* "let mut counter: u32 = 0": the counter is unsigned.  Testing it after a
\* pass of a loop also has the state of that pass evaluated before the next
\* pass, not nested inside it.
CounterInRange(st) == st.counter \in Nat

\* "if new_g < existing_g { ... }": record the better cost and push
Relax(st, current_key, neighbor, new_g, g_overflow, targets) ==
    LET neighbor_key == as_key(neighbor)
        existing_g == IF neighbor_key \in DOMAIN st.g_costs
                      THEN st.g_costs[neighbor_key] ELSE I32_MAX
        h == heuristic_to_targets(neighbor, targets)
        f == WrappingAdd(new_g, h)
    IN  IF new_g < existing_g
        THEN [st EXCEPT !.g_costs = MapPut(@, neighbor_key, new_g),
                        !.parents = MapPut(@, neighbor_key, current_key),
                        !.open_set = @ \cup {[f_score |-> f, g_score |-> new_g,
                                             state |-> neighbor,
                                             counter |-> st.counter]},
                        !.counter = @ + 1,
                        !.overflow = @ \/ g_overflow \/ AddOverflows(new_g, h)]
        ELSE [st EXCEPT !.overflow = @ \/ g_overflow]

\* faulty variant: a neighbour is relaxed whether it is closed or not
PlanarStepIgnoresClosed(st, current, g, d, targets) ==
    LET dx == d[1]
        dy == d[2]
        ngx == current.gx + dx
        ngy == current.gy + dy
        neighbor == GridState(ngx, ngy, current.layer)
        move_cost == IF dx # 0 /\ dy # 0 THEN DIAG_COST ELSE ORTHO_COST
        proximity_cost == get_stub_proximity_cost(ngx, ngy)
        g1 == WrappingAdd(g, move_cost)
        new_g == WrappingAdd(g1, proximity_cost)
        g_overflow == AddOverflows(g, move_cost) \/ AddOverflows(g1, proximity_cost)
    IN  IF is_blocked(ngx, ngy, current.layer) THEN st
        ELSE Relax(st, as_key(current), neighbor, new_g, g_overflow, targets)

\* one pass of "for (dx, dy) in DIRECTIONS"
PlanarStep(st, current, g, d, targets) ==
    LET dx == d[1]
        dy == d[2]
        ngx == current.gx + dx
        ngy == current.gy + dy
        neighbor == GridState(ngx, ngy, current.layer)
        move_cost == IF dx # 0 /\ dy # 0 THEN DIAG_COST ELSE ORTHO_COST
        proximity_cost == get_stub_proximity_cost(ngx, ngy)
        g1 == WrappingAdd(g, move_cost)
        new_g == WrappingAdd(g1, proximity_cost)
        g_overflow == AddOverflows(g, move_cost) \/ AddOverflows(g1, proximity_cost)
    IN  IF is_blocked(ngx, ngy, current.layer) THEN st
        ELSE IF as_key(neighbor) \in st.closed THEN st
        ELSE Relax(st, as_key(current), neighbor, new_g, g_overflow, targets)

RECURSIVE ExpandPlanar(_, _, _, _, _)
ExpandPlanar(st, current, g, i, targets) ==
    IF i > Len(DIRECTIONS) THEN st
    ELSE LET st1 == PlanarStep(st, current, g, DIRECTIONS[i], targets)
         IN  IF CounterInRange(st1)
             THEN ExpandPlanar(st1, current, g, i + 1, targets)
             ELSE st1

\* one pass of "for layer in 0..obstacles.num_layers as u8"
ViaStep(st, current, g, layer, targets) ==
    LET neighbor == GridState(current.gx, current.gy, layer)
        prox == get_stub_proximity_cost(current.gx, current.gy)
        proximity_cost == WrappingAdd(prox, prox)
        g1 == WrappingAdd(g, via_cost)
        new_g == WrappingAdd(g1, proximity_cost)
        g_overflow == \/ AddOverflows(prox, prox)
                      \/ AddOverflows(g, via_cost)
                      \/ AddOverflows(g1, proximity_cost)
    IN  IF layer = current.layer THEN st
        ELSE IF is_blocked(current.gx, current.gy, layer) THEN st
        ELSE IF as_key(neighbor) \in st.closed THEN st
        ELSE Relax(st, as_key(current), neighbor, new_g, g_overflow, targets)

RECURSIVE ExpandVias(_, _, _, _, _)
ExpandVias(st, current, g, layer, targets) ==
    IF layer >= num_layers THEN st
    ELSE LET st1 == ViaStep(st, current, g, layer, targets)
         IN  IF CounterInRange(st1)
             THEN ExpandVias(st1, current, g, layer + 1, targets)
             ELSE st1

\* faulty variant: the via transitions are left out
ExpandPlanarOnly(st, current, g, targets) ==
    ExpandPlanar(st, current, g, 1, targets)

\* the body of the search loop after the target test: 8 directions, then vias
Expand(st, current, g, targets) ==
    LET st1 == ExpandPlanar(st, current, g, 1, targets)
    IN  IF ~is_via_blocked(current.gx, current.gy)
        THEN ExpandVias(st1, current, g, 0, targets)
        ELSE st1

\* reconstruct_path: walk parents from the goal until a key has no parent,
\* then reverse
RECURSIVE PathTo(_, _)
PathTo(parents, key) ==
    IF key \in DOMAIN parents
    THEN Append(PathTo(parents, parents[key]), UnpackKey(key))
    ELSE <<UnpackKey(key)>>

reconstruct_path(parents, goal_key) == PathTo(parents, goal_key)

(***************************************************************************)
(* GridRouter.route_multi                                                  *)
(***************************************************************************)
TargetSet(targets) == {as_key(targets[i]) : i \in 1..Len(targets)}

NoPath == <<>>

\* faulty variant: the limit is tested as if the counter had been raised already
LimitReachedLate(iterations, max_iterations) == iterations > max_iterations

\* "if iterations >= max_iterations { break; }", tested after the pop
LimitReached(iterations, max_iterations) == iterations >= max_iterations

\* faulty variant: the closed test stands before the increment, so a skipped
\* entry is not counted
SkippedPopUncounted(iterations) == iterations

\* "iterations += 1" stands before "if closed.contains(&current_key) {
\* continue; }": a popped entry that is skipped has been counted
SkippedPop(iterations) == iterations + 1

\* "while let Some(current_entry) = open_set.pop()"; the result is
\* what route_multi returns, with the search state it ended in
RECURSIVE RouteLoop(_, _, _, _)
RouteLoop(st, iterations, targets, max_iterations) ==
    IF st.open_set = {}
    THEN [path |-> NoPath, iterations |-> iterations, search |-> st]
    ELSE LET current_entry == HeapTop(st.open_set)
             popped == [st EXCEPT !.open_set = @ \ {current_entry}]
             current == current_entry.state
             current_key == as_key(current)
             g == current_entry.g_score
             closed1 == [popped EXCEPT !.closed = @ \cup {current_key}]
         IN  IF LimitReached(iterations, max_iterations)
             THEN [path |-> NoPath, iterations |-> iterations, search |-> popped]
             ELSE IF current_key \in st.closed
                  THEN RouteLoop(popped, SkippedPop(iterations), targets,
                                 max_iterations)
                  ELSE IF current_key \in TargetSet(targets)
                       THEN [path |-> reconstruct_path(st.parents, current_key),
                             iterations |-> iterations + 1, search |-> closed1]
                       ELSE RouteLoop(Expand(closed1, current, g, targets),
                                      iterations + 1, targets, max_iterations)

\* sources, targets: sequences of GridState
route_multi(sources, targets, max_iterations) ==
    RouteLoop(PushSources(EmptySearch, sources, targets, 1), 0, targets,
              max_iterations)


(***************************************************************************)
(* VisualRouter                                                            *)
(***************************************************************************)
NoCell == <<>>

\* VisualRouter::new
NewVisualRouter ==
    [open_set |-> {}, g_costs |-> EmptyMap, parents |-> EmptyMap, closed |-> {},
     counter |-> 0, overflow |-> FALSE, iterations |-> 0, max_iterations |-> 0,
     target_set |-> {}, target_states |-> <<>>, found |-> FALSE,
     final_path |-> NoPath]

\* faulty variant: the closed set of the earlier search is kept
init_keeps_closed(v, sources, targets, max_iterations) ==
    PushSources([v EXCEPT !.open_set = {}, !.g_costs = EmptyMap,
                          !.parents = EmptyMap, !.counter = 0,
                          !.overflow = FALSE, !.iterations = 0,
                          !.max_iterations = max_iterations, !.found = FALSE,
                          !.final_path = NoPath,
                          !.target_set = TargetSet(targets),
                          !.target_states = targets],
                sources, targets, 1)

\* VisualRouter::init: reset, set the targets up, push the sources
init(v, sources, targets, max_iterations) ==
    PushSources([v EXCEPT !.open_set = {}, !.g_costs = EmptyMap,
                          !.parents = EmptyMap, !.closed = {}, !.counter = 0,
                          !.overflow = FALSE, !.iterations = 0,
                          !.max_iterations = max_iterations, !.found = FALSE,
                          !.final_path = NoPath,
                          !.target_set = TargetSet(targets),
                          !.target_states = targets],
                sources, targets, 1)

\* faulty variant: the iteration limit is left out of the test
is_done_without_limit(v) == v.found \/ v.open_set = {}

is_done(v) == v.found \/ v.open_set = {} \/ v.iterations >= v.max_iterations

get_path(v) == v.final_path

get_iterations(v) == v.iterations

\* faulty variant: the found flag does not stop the loop
StepStopsIgnoresFound(v) ==
    v.open_set = {} \/ v.iterations >= v.max_iterations

\* faulty variant: one iteration more than max_iterations is let through
StepStopsLate(v) ==
    v.found \/ v.open_set = {} \/ v.iterations > v.max_iterations

\* "if self.found || self.open_set.is_empty() || self.iterations >=
\* self.max_iterations { break; }", tested before the pop
StepStops(v) ==
    v.found \/ v.open_set = {} \/ v.iterations >= v.max_iterations

\* "for _ in 0..num_iterations" of VisualRouter::step; the result is the
\* router after the loop and the loop's current_node
RECURSIVE StepLoop(_, _, _)
StepLoop(v, n, current_node) ==
    IF n = 0 THEN [vr |-> v, current_node |-> current_node]
    ELSE IF StepStops(v)
    THEN [vr |-> v, current_node |-> current_node]
    ELSE LET current_entry == HeapTop(v.open_set)
             popped == [v EXCEPT !.iterations = @ + 1,
                                 !.open_set = @ \ {current_entry}]
             current == current_entry.state
             current_key == as_key(current)
             g == current_entry.g_score
             closed1 == [popped EXCEPT !.closed = @ \cup {current_key}]
             node == <<current.gx, current.gy, current.layer>>
         IN  IF current_key \in v.closed
             THEN StepLoop(popped, n - 1, current_node)
             ELSE IF current_key \in v.target_set
                  THEN [vr |-> [closed1 EXCEPT
                                   !.found = TRUE,
                                   !.final_path = reconstruct_path(v.parents, current_key)],
                        current_node |-> node]
                  ELSE StepLoop(Expand(closed1, current, g, v.target_states),
                                n - 1, node)

MAX_CELLS == 50000

\* iter().take(MAX_CELLS): any MAX_CELLS of them when there are more
Take(S) ==
    IF Cardinality(S) <= MAX_CELLS THEN S
    ELSE CHOOSE T \in SUBSET S : Cardinality(T) = MAX_CELLS

\* faulty variant: the snapshot is built without the loop's current_node
create_snapshot_without_current(v, current) ==
    [iteration |-> v.iterations,
     current |-> NoCell,
     open_count |-> Cardinality(v.open_set),
     closed_count |-> Cardinality(v.closed),
     found |-> v.found,
     path |-> v.final_path,
     closed_cells |-> {UnpackKey(k) : k \in v.closed},
     open_cells |-> {UnpackKey(k) : k \in ((DOMAIN v.g_costs) \ v.closed)}]

create_snapshot(v, current) ==
    [iteration |-> v.iterations,
     current |-> current,
     open_count |-> Cardinality(v.open_set),
     closed_count |-> Cardinality(v.closed),
     found |-> v.found,
     path |-> v.final_path,
     closed_cells |-> {UnpackKey(k) : k \in Take(v.closed)},
     open_cells |-> {UnpackKey(k) : k \in Take((DOMAIN v.g_costs) \ v.closed)}]

\* faulty variant: the push counter starts again at 0 in every call
step_restarts_counter(v, num_iterations) ==
    LET r == StepLoop([v EXCEPT !.counter = 0], num_iterations, NoCell)
    IN  [vr |-> r.vr, snapshot |-> create_snapshot(r.vr, r.current_node)]

\* VisualRouter::step
step(v, num_iterations) ==
    LET r == StepLoop(v, num_iterations, NoCell)
    IN  [vr |-> r.vr, snapshot |-> create_snapshot(r.vr, r.current_node)]

(***************************************************************************)
(* DiffPairRouter                                                          *)
(***************************************************************************)
DiffPairState(gx, gy, layer, orientation) ==
    [gx |-> gx, gy |-> gy, layer |-> layer, orientation |-> orientation]

\* DiffPairState::as_key: (x << 28) | (y << 10) | (l << 2) | o with x, y
\* masked to 18 bits
pair_as_key(s) == <<s.gx % 262144, s.gy % 262144, s.layer, s.orientation>>

\* faulty variant: P below the centre for the horizontal orientation
p_pos_below(s, half_spacing) ==
    CASE s.orientation = 0 -> <<s.gx, s.gy - half_spacing>>
      [] s.orientation = 1 -> <<s.gx + half_spacing, s.gy>>
      [] s.orientation = 2 -> <<s.gx + half_spacing, s.gy + half_spacing>>
      [] s.orientation = 3 -> <<s.gx - half_spacing, s.gy + half_spacing>>
      [] OTHER -> <<s.gx, s.gy + half_spacing>>

\* DiffPairState::p_pos
p_pos(s, half_spacing) ==
    CASE s.orientation = 0 -> <<s.gx, s.gy + half_spacing>>
      [] s.orientation = 1 -> <<s.gx + half_spacing, s.gy>>
      [] s.orientation = 2 -> <<s.gx + half_spacing, s.gy + half_spacing>>
      [] s.orientation = 3 -> <<s.gx - half_spacing, s.gy + half_spacing>>
      [] OTHER -> <<s.gx, s.gy + half_spacing>>

\* DiffPairState::n_pos
n_pos(s, half_spacing) ==
    CASE s.orientation = 0 -> <<s.gx, s.gy - half_spacing>>
      [] s.orientation = 1 -> <<s.gx - half_spacing, s.gy>>
      [] s.orientation = 2 -> <<s.gx - half_spacing, s.gy - half_spacing>>
      [] s.orientation = 3 -> <<s.gx + half_spacing, s.gy - half_spacing>>
      [] OTHER -> <<s.gx, s.gy - half_spacing>>

\* i32 division: the quotient is truncated toward zero
TruncDiv(a, b) == IF a >= 0 THEN a \div b ELSE -((-a) \div b)

\* the closure of the two filter_map calls: an endpoint
\* <<p_gx, p_gy, n_gx, n_gy, layer>> to its centre state
EndpointState(e) ==
    LET center_gx == TruncDiv(e[1] + e[3], 2)
        center_gy == TruncDiv(e[2] + e[4], 2)
        dx == e[1] - e[3]
        dy == e[2] - e[4]
        orientation == IF Abs(dx) > Abs(dy) THEN 1 ELSE 0
    IN  DiffPairState(center_gx, center_gy, e[5], orientation)

EndpointStates(list) == [i \in 1..Len(list) |-> EndpointState(list[i])]

\* faulty variant: the rows of the two diagonals exchanged
get_valid_orientations_swapped(dx, dy, current_orientation) ==
    CASE (dx = 1 /\ dy = 0) \/ (dx = -1 /\ dy = 0) -> <<0, 2, 3>>
      [] (dx = 0 /\ dy = 1) \/ (dx = 0 /\ dy = -1) -> <<1, 2, 3>>
      [] (dx = 1 /\ dy = 1) \/ (dx = -1 /\ dy = -1) -> <<2, 0, 1>>
      [] (dx = 1 /\ dy = -1) \/ (dx = -1 /\ dy = 1) -> <<3, 0, 1>>
      [] OTHER -> <<current_orientation>>

\* DiffPairRouter::get_valid_orientations
get_valid_orientations(dx, dy, current_orientation) ==
    CASE (dx = 1 /\ dy = 0) \/ (dx = -1 /\ dy = 0) -> <<0, 2, 3>>
      [] (dx = 0 /\ dy = 1) \/ (dx = 0 /\ dy = -1) -> <<1, 2, 3>>
      [] (dx = 1 /\ dy = 1) \/ (dx = -1 /\ dy = -1) -> <<3, 0, 1>>
      [] (dx = 1 /\ dy = -1) \/ (dx = -1 /\ dy = 1) -> <<2, 0, 1>>
      [] OTHER -> <<current_orientation>>

RECURSIVE PairMinOverTargets(_, _, _, _)
PairMinOverTargets(state, targets, i, min_h) ==
    IF i > Len(targets) THEN min_h
    ELSE LET target == targets[i]
             dx == Abs(state.gx - target.gx)
             dy == Abs(state.gy - target.gy)
             diag == Min(dx, dy)
             orth == Abs(dx - dy)
             h0 == diag * DIAG_COST + orth * ORTHO_COST
             h == IF state.layer # target.layer THEN h0 + via_cost * 2 ELSE h0
         IN  PairMinOverTargets(state, targets, i + 1, Min(min_h, h))

\* DiffPairRouter::heuristic_to_targets
pair_heuristic_to_targets(state, targets) ==
    ScaleByWeight(PairMinOverTargets(state, targets, 1, I32_MAX))

\* "for state in &source_states": push each source with g = 0
RECURSIVE PairPushSources(_, _, _, _)
PairPushSources(st, source_states, target_states, i) ==
    IF i > Len(source_states) THEN st
    ELSE LET state == source_states[i]
             h == pair_heuristic_to_targets(state, target_states)
             entry == [f_score |-> h, g_score |-> 0, state |-> state,
                       counter |-> st.counter]
         IN  PairPushSources([st EXCEPT !.open_set = @ \cup {entry},
                                        !.counter = @ + 1,
                                        !.g_costs = MapPut(@, pair_as_key(state), 0)],
                             source_states, target_states, i + 1)

\* "if new_g < existing_g { ... }" of route_diff_pair
PairRelax(st, current_key, neighbor, new_g, g_overflow, target_states) ==
    LET neighbor_key == pair_as_key(neighbor)
        existing_g == IF neighbor_key \in DOMAIN st.g_costs
                      THEN st.g_costs[neighbor_key] ELSE I32_MAX
        h == pair_heuristic_to_targets(neighbor, target_states)
        f == WrappingAdd(new_g, h)
    IN  IF new_g < existing_g
        THEN [st EXCEPT !.g_costs = MapPut(@, neighbor_key, new_g),
                        !.parents = MapPut(@, neighbor_key, current_key),
                        !.open_set = @ \cup {[f_score |-> f, g_score |-> new_g,
                                             state |-> neighbor,
                                             counter |-> st.counter]},
                        !.counter = @ + 1,
                        !.overflow = @ \/ g_overflow \/ AddOverflows(new_g, h)]
        ELSE [st EXCEPT !.overflow = @ \/ g_overflow]

\* one pass of "for new_orientation in new_orientations"
PairPlanarStep(st, current, g, d, new_orientation, half_spacing, target_states) ==
    LET dx == d[1]
        dy == d[2]
        neighbor == DiffPairState(current.gx + dx, current.gy + dy,
                                  current.layer, new_orientation)
        p == p_pos(neighbor, half_spacing)
        n == n_pos(neighbor, half_spacing)
        move_cost == IF dx # 0 /\ dy # 0 THEN DIAG_COST ELSE ORTHO_COST
        orientation_cost == IF new_orientation # current.orientation THEN 500 ELSE 0
        prox_p == get_stub_proximity_cost(p[1], p[2])
        prox_n == get_stub_proximity_cost(n[1], n[2])
        proximity_cost == WrappingAdd(prox_p, prox_n)
        g1 == WrappingAdd(g, move_cost)
        g2 == WrappingAdd(g1, orientation_cost)
        new_g == WrappingAdd(g2, proximity_cost)
        g_overflow == \/ AddOverflows(prox_p, prox_n)
                      \/ AddOverflows(g, move_cost)
                      \/ AddOverflows(g1, orientation_cost)
                      \/ AddOverflows(g2, proximity_cost)
    IN  IF \/ is_blocked(p[1], p[2], neighbor.layer)
           \/ is_blocked(n[1], n[2], neighbor.layer)
        THEN st
        ELSE IF pair_as_key(neighbor) \in st.closed THEN st
        ELSE PairRelax(st, pair_as_key(current), neighbor, new_g, g_overflow,
                       target_states)

\* "for new_orientation in new_orientations", from the j-th on
RECURSIVE PairOrientations(_, _, _, _, _, _, _, _)
PairOrientations(st, current, g, d, new_orientations, j, half_spacing, target_states) ==
    IF j > Len(new_orientations) THEN st
    ELSE LET st1 == PairPlanarStep(st, current, g, d, new_orientations[j],
                                   half_spacing, target_states)
         IN  IF CounterInRange(st1)
             THEN PairOrientations(st1, current, g, d, new_orientations, j + 1,
                                   half_spacing, target_states)
             ELSE st1

\* "for (dx, dy) in DIRECTIONS" of route_diff_pair, from the i-th on
RECURSIVE PairExpandPlanar(_, _, _, _, _, _)
PairExpandPlanar(st, current, g, i, half_spacing, target_states) ==
    IF i > Len(DIRECTIONS) THEN st
    ELSE LET d == DIRECTIONS[i]
             new_orientations ==
                 get_valid_orientations(d[1], d[2], current.orientation)
             st1 == PairOrientations(st, current, g, d, new_orientations, 1,
                                     half_spacing, target_states)
         IN  IF CounterInRange(st1)
             THEN PairExpandPlanar(st1, current, g, i + 1, half_spacing,
                                   target_states)
             ELSE st1

\* one pass of "for layer in 0..obstacles.num_layers as u8" of route_diff_pair
PairViaStep(st, current, g, layer, half_spacing, target_states) ==
    LET p == p_pos(current, half_spacing)
        n == n_pos(current, half_spacing)
        neighbor == DiffPairState(current.gx, current.gy, layer, current.orientation)
        prox_p == get_stub_proximity_cost(p[1], p[2])
        prox_n == get_stub_proximity_cost(n[1], n[2])
        prox == WrappingAdd(prox_p, prox_n)
        proximity_cost == WrappingAdd(prox, prox)
        via2 == WrappingAdd(via_cost, via_cost)
        g1 == WrappingAdd(g, via2)
        new_g == WrappingAdd(g1, proximity_cost)
        g_overflow == \/ AddOverflows(prox_p, prox_n)
                      \/ AddOverflows(prox, prox)
                      \/ AddOverflows(via_cost, via_cost)
                      \/ AddOverflows(g, via2)
                      \/ AddOverflows(g1, proximity_cost)
    IN  IF layer = current.layer THEN st
        ELSE IF \/ is_blocked(p[1], p[2], layer)
                \/ is_blocked(n[1], n[2], layer)
        THEN st
        ELSE IF pair_as_key(neighbor) \in st.closed THEN st
        ELSE PairRelax(st, pair_as_key(current), neighbor, new_g, g_overflow,
                       target_states)

RECURSIVE PairExpandVias(_, _, _, _, _, _)
PairExpandVias(st, current, g, layer, half_spacing, target_states) ==
    IF layer >= num_layers THEN st
    ELSE LET st1 == PairViaStep(st, current, g, layer, half_spacing,
                                target_states)
         IN  IF CounterInRange(st1)
             THEN PairExpandVias(st1, current, g, layer + 1, half_spacing,
                                 target_states)
             ELSE st1

\* the body of route_diff_pair's loop after the target test
PairExpand(st, current, g, half_spacing, target_states) ==
    LET st1 == PairExpandPlanar(st, current, g, 1, half_spacing, target_states)
        p == p_pos(current, half_spacing)
        n == n_pos(current, half_spacing)
    IN  IF ~is_via_blocked(p[1], p[2]) /\ ~is_via_blocked(n[1], n[2])
        THEN PairExpandVias(st1, current, g, 0, half_spacing, target_states)
        ELSE st1

\* "let target_tolerance = 5"
target_tolerance == 5

\* faulty variant: the layers are not compared
WithinToleranceAnyLayer(current, target) ==
    /\ Abs(current.gx - target.gx) <= target_tolerance
    /\ Abs(current.gy - target.gy) <= target_tolerance

\* the test inside "for target in &target_states"
WithinToleranceOf(current, target) ==
    /\ current.layer = target.layer
    /\ Abs(current.gx - target.gx) <= target_tolerance
    /\ Abs(current.gy - target.gy) <= target_tolerance

\* reached_target
ReachedTarget(current, target_states) ==
    \E i \in 1..Len(target_states) : WithinToleranceOf(current, target_states[i])

\* x | !0x3FFFF when bit 17 is set
SignExtend18(v) == IF v >= 131072 THEN v - 262144 ELSE v

\* the unpacking at the head of reconstruct_diff_pair_path's loop
PairUnpackKey(key) ==
    DiffPairState(SignExtend18(key[1]), SignExtend18(key[2]), key[3], key[4])

\* the states from the one without a parent to the goal
RECURSIVE PairStatesTo(_, _)
PairStatesTo(parents, key) ==
    IF key \in DOMAIN parents
    THEN Append(PairStatesTo(parents, parents[key]), PairUnpackKey(key))
    ELSE <<PairUnpackKey(key)>>

\* reconstruct_diff_pair_path: the P cells and the N cells of those states
reconstruct_diff_pair_path(parents, goal_key, half_spacing) ==
    LET states == PairStatesTo(parents, goal_key)
    IN  [p_path |-> [i \in 1..Len(states) |->
                        LET p == p_pos(states[i], half_spacing)
                        IN  <<p[1], p[2], states[i].layer>>],
         n_path |-> [i \in 1..Len(states) |->
                        LET n == n_pos(states[i], half_spacing)
                        IN  <<n[1], n[2], states[i].layer>>]]

\* "while let Some(current_entry) = open_set.pop()" of route_diff_pair
RECURSIVE PairRouteLoop(_, _, _, _, _)
PairRouteLoop(st, iterations, half_spacing, target_states, max_iterations) ==
    IF st.open_set = {}
    THEN [p_path |-> NoPath, n_path |-> NoPath, iterations |-> iterations,
          search |-> st]
    ELSE LET current_entry == HeapTop(st.open_set)
             popped == [st EXCEPT !.open_set = @ \ {current_entry}]
             current == current_entry.state
             current_key == pair_as_key(current)
             g == current_entry.g_score
             closed1 == [popped EXCEPT !.closed = @ \cup {current_key}]
         IN  IF LimitReached(iterations, max_iterations)
             THEN [p_path |-> NoPath, n_path |-> NoPath,
                   iterations |-> iterations, search |-> popped]
             ELSE IF current_key \in st.closed
                  THEN PairRouteLoop(popped, SkippedPop(iterations), half_spacing,
                                     target_states, max_iterations)
                  ELSE IF ReachedTarget(current, target_states)
                       THEN LET r == reconstruct_diff_pair_path(
                                         st.parents, current_key, half_spacing)
                            IN  [p_path |-> r.p_path, n_path |-> r.n_path,
                                 iterations |-> iterations + 1,
                                 search |-> closed1]
                       ELSE PairRouteLoop(
                                PairExpand(closed1, current, g, half_spacing,
                                           target_states),
                                iterations + 1, half_spacing, target_states,
                                max_iterations)

\* DiffPairRouter::route_diff_pair; sources, targets: sequences of
\* <<p_gx, p_gy, n_gx, n_gy, layer>>
route_diff_pair(half_spacing, sources, targets, max_iterations) ==
    LET source_states == EndpointStates(sources)
        target_states == EndpointStates(targets)
    IN  IF source_states = <<>> \/ target_states = <<>>
        THEN [p_path |-> NoPath, n_path |-> NoPath, iterations |-> 0,
              search |-> EmptySearch]
        ELSE PairRouteLoop(
                 PairPushSources(EmptySearch, source_states, target_states, 1),
                 0, half_spacing, target_states, max_iterations)

(***************************************************************************)
(* Bounds and input sets                                                   *)
(***************************************************************************)
\* layers of the board
NumLayers == 2
\* longest bga_zones list built
MaxZones == 2
\* the largest max_iterations passed
MaxIterations == 24
\* most obstacle entries (cells, vias, zones, costs) a populated map holds
MaxObstacles == 3

\* layer arguments, one of them out of range
LayerArgs == 0..NumLayers

ViaCosts == {-600, 0, 2500}
HWeights2 == {2, 3}

\* what the search scenarios populate the map with: a wall at x = 0 on
\* layer 0, the source cell, a cell on a missing layer; a zone around the
\* source with one allowed cell; a via block and a proximity cost
BlockedArgs ==
    {<<0, -1, 0>>, <<0, 0, 0>>, <<0, 1, 0>>, <<-1, 0, 0>>, <<0, 0, NumLayers>>}
ZoneArgs == {<<-2, -1, 0, 1>>}
AllowedArgs == {<<0, 0>>}
ViaArgs == {<<-1, 0>>}
ProximityArgs == {<<0, 0>>}
ProximityCosts == {-5, 900}

SourceLists ==
    { <<GridState(-1, 0, 0)>>,
      <<GridState(-1, 0, 0), GridState(1, -1, 1)>>,
      <<>> }
\* the target lists: one cell; two cells on the other layer; a cell on a
\* layer the board lacks (never reached); none
TargetLists ==
    { <<GridState(1, 0, 0)>>,
      <<GridState(1, 0, 1), GridState(1, -1, 1)>>,
      <<GridState(1, 0, NumLayers)>>,
      <<>> }
IterationLimits == {0, 1, MaxIterations}

\* the max_iterations values of the pair routing calls
MaxPairIterations == 12
PairIterationLimits == {0, 1, MaxPairIterations}
StepSizes == {1, 3}

\* what the obstacle-map scenarios use: cells in one zone, in both zones and
\* in none, two overlapping zones
CellArgs == {<<0, 0>>, <<-1, 0>>, <<2, 0>>}
ZoneArgsAny == {<<-2, -1, 0, 1>>, <<0, 0, 1, 1>>}
CostArgs == {-5, 300, 900}

\* the worked examples: the largest max_iterations passed to route_multi and
\* to route_diff_pair, and the most zone and allowed-cell entries on the map
ExampleIterations == 30
ExamplePairIterations == 60
ExampleObstacles == 5

\* via_cost of the worked examples
ExampleViaCosts == {-600, 0, 5000}
\* the zone of the worked examples and the allowed cells: the source (5,5)
\* and the diagonal from it to the corner of the zone
ExampleZone == <<2, 2, 8, 8>>
ExampleAllowed == {<<5, 5>>, <<6, 6>>, <<7, 7>>, <<8, 8>>}
\* <<source, target>> of a route_multi call: along a row, through a via, a
\* knight-like offset on the other layer; from inside the zone, from its
\* corner and from its side to a cell outside; three cells at the ends of
\* the key range, each source and target at once
ExampleTasks ==
    { <<GridState(0, 0, 0), GridState(10, 0, 0)>>,
      <<GridState(0, 0, 0), GridState(0, 0, 1)>>,
      <<GridState(0, 0, 0), GridState(2, -3, 1)>>,
      <<GridState(5, 5, 0), GridState(10, 10, 0)>>,
      <<GridState(8, 8, 0), GridState(10, 10, 0)>>,
      <<GridState(8, 5, 0), GridState(10, 5, 0)>>,
      <<GridState(524287, -524288, 0), GridState(524287, -524288, 0)>>,
      <<GridState(-524288, -1, 1), GridState(-524288, -1, 1)>>,
      <<GridState(-1, 524287, 255), GridState(-1, 524287, 255)>> }
ExampleLimits == {1, ExampleIterations}
\* <<source, target>> of a route_diff_pair call with half_spacing 2, the
\* endpoints as <<p_gx, p_gy, n_gx, n_gy, layer>>: the pair around (0,0)
\* to the pair around (20,0); three pairs at the ends of the key range
ExampleHalfSpacing == 2
ExamplePairTasks ==
    { << <<0, 2, 0, -2, 0>>, <<20, 2, 20, -2, 0>> >>,
      << <<131071, 2, 131071, -2, 0>>, <<131071, 2, 131071, -2, 0>> >>,
      << <<-131070, -131072, -131074, -131072, 1>>,
         <<-131070, -131072, -131074, -131072, 1>> >>,
      << <<-1, 131073, -1, 131069, 255>>, <<-1, 131073, -1, 131069, 255>> >> }

\* the coordinates, layers and orientations at the ends of the ranges of the
\* two keys
KeyCoords20 == {-524288, -1, 0, 524287}
KeyCoords18 == {-131072, -1, 0, 131071}
KeyLayers == {0, 1, 255}
KeyOrientations == 0..3

\* what the recorded obstacle-map calls use
OpCells == {<<0, 0>>, <<2, 0>>}
OpCosts == {-9, -5, 300, 900}

\* what the pair scenarios use.  Endpoints are <<p_gx, p_gy, n_gx, n_gy,
\* layer>>: a pair around (0,0); a pair whose x sum is odd and negative;
\* two pairs near the target, the first inside its tolerance at (12,5), the
\* second just outside at (13,0); targets around (7,0) on either layer
HalfSpacings == {1, 2}
PairSourceLists ==
    { << <<0, 1, 0, -1, 0>> >>,
      << <<-2, 0, -1, 0, 0>>, <<0, 1, 0, -1, 0>> >>,
      << <<12, 6, 12, 4, 0>>, <<13, 1, 13, -1, 0>> >>,
      <<>> }
PairTargetLists ==
    { << <<7, 1, 7, -1, 0>> >>,
      << <<7, 1, 7, -1, 1>> >>,
      <<>> }
\* cells of the pair around (0,0) and of the centres next to it
PairBlockedArgs == {<<0, 1, 0>>, <<1, 1, 0>>, <<1, -2, 0>>}
PairViaArgs == {<<0, 1>>}
PairProximityArgs == {<<1, 1>>}

(***************************************************************************)
(* Obstacle map: construction and mutation                                 *)
(***************************************************************************)
\* GridObstacleMap::new(num_layers)
NewMap(n) ==
    /\ num_layers = n
    /\ blocked_cells = [l \in 0..(n - 1) |-> {}]
    /\ blocked_vias = {}
    /\ stub_proximity = EmptyMap
    /\ bga_zones = <<>>
    /\ allowed_cells = {}
    /\ source_target_cells = [l \in 0..(n - 1) |-> {}]

RECURSIVE SumCard(_, _)
SumCard(f, S) ==
    IF S = {} THEN 0
    ELSE LET l == CHOOSE x \in S : TRUE
         IN  Cardinality(f[l]) + SumCard(f, S \ {l})

\* entries held by the map
MapSize ==
    SumCard(blocked_cells, DOMAIN blocked_cells) + Cardinality(blocked_vias)
    + Cardinality(DOMAIN stub_proximity) + Len(bga_zones)
    + Cardinality(allowed_cells)
    + SumCard(source_target_cells, DOMAIN source_target_cells)

add_source_target_cell(gx, gy, layer) ==
    /\ source_target_cells' =
           IF layer < num_layers
           THEN [source_target_cells EXCEPT ![layer] = @ \cup {pack_xy(gx, gy)}]
           ELSE source_target_cells
    /\ UNCHANGED <<num_layers, blocked_cells, blocked_vias, stub_proximity,
                   bga_zones, allowed_cells, cost_vars, gr, dp, visual_vars>>

clear_source_target_cells ==
    /\ source_target_cells' = [l \in DOMAIN source_target_cells |-> {}]
    /\ UNCHANGED <<num_layers, blocked_cells, blocked_vias, stub_proximity,
                   bga_zones, allowed_cells, cost_vars, gr, dp, visual_vars>>

clear_stub_proximity ==
    /\ stub_proximity' = EmptyMap
    /\ UNCHANGED <<num_layers, blocked_cells, blocked_vias, bga_zones,
                   allowed_cells, source_target_cells, cost_vars, gr, dp, visual_vars>>

\* faulty variant: the endpoint overrides are emptied too
clear_allowed_cells_and_overrides ==
    /\ allowed_cells' = {}
    /\ source_target_cells' = [l \in DOMAIN source_target_cells |-> {}]
    /\ UNCHANGED <<num_layers, blocked_cells, blocked_vias, stub_proximity,
                   bga_zones, cost_vars, gr, dp, visual_vars>>

clear_allowed_cells ==
    /\ allowed_cells' = {}
    /\ UNCHANGED <<num_layers, blocked_cells, blocked_vias, stub_proximity,
                   bga_zones, source_target_cells, cost_vars, gr, dp, visual_vars>>

add_allowed_cell(gx, gy) ==
    /\ allowed_cells' = allowed_cells \cup {pack_xy(gx, gy)}
    /\ UNCHANGED <<num_layers, blocked_cells, blocked_vias, stub_proximity,
                   bga_zones, source_target_cells, cost_vars, gr, dp, visual_vars>>

set_bga_zone(min_gx, min_gy, max_gx, max_gy) ==
    /\ bga_zones' = Append(bga_zones, <<min_gx, min_gy, max_gx, max_gy>>)
    /\ UNCHANGED <<num_layers, blocked_cells, blocked_vias, stub_proximity,
                   allowed_cells, source_target_cells, cost_vars, gr, dp, visual_vars>>

\* faulty variant: no test of the layer, the vector grows
add_blocked_cell_unchecked(gx, gy, layer) ==
    /\ blocked_cells' =
           IF layer < num_layers
           THEN [blocked_cells EXCEPT ![layer] = @ \cup {pack_xy(gx, gy)}]
           ELSE (layer :> {pack_xy(gx, gy)}) @@ blocked_cells
    /\ UNCHANGED <<num_layers, blocked_vias, stub_proximity, bga_zones,
                   allowed_cells, source_target_cells, cost_vars, gr, dp, visual_vars>>

add_blocked_cell(gx, gy, layer) ==
    /\ blocked_cells' =
           IF layer < num_layers
           THEN [blocked_cells EXCEPT ![layer] = @ \cup {pack_xy(gx, gy)}]
           ELSE blocked_cells
    /\ UNCHANGED <<num_layers, blocked_vias, stub_proximity, bga_zones,
                   allowed_cells, source_target_cells, cost_vars, gr, dp, visual_vars>>

add_blocked_via(gx, gy) ==
    /\ blocked_vias' = blocked_vias \cup {pack_xy(gx, gy)}
    /\ UNCHANGED <<num_layers, blocked_cells, stub_proximity, bga_zones,
                   allowed_cells, source_target_cells, cost_vars, gr, dp, visual_vars>>

\* faulty variant: the cost is stored whatever the stored one is
set_stub_proximity_overwrite(gx, gy, cost) ==
    /\ stub_proximity' = MapPut(stub_proximity, pack_xy(gx, gy), cost)
    /\ UNCHANGED <<num_layers, blocked_cells, blocked_vias, bga_zones,
                   allowed_cells, source_target_cells, cost_vars, gr, dp, visual_vars>>

\* faulty variant: a cell without a stored cost takes any cost
set_stub_proximity_no_default(gx, gy, cost) ==
    /\ LET key == pack_xy(gx, gy)
       IN  stub_proximity' =
               IF key \notin DOMAIN stub_proximity \/ cost > stub_proximity[key]
               THEN MapPut(stub_proximity, key, cost)
               ELSE stub_proximity
    /\ UNCHANGED <<num_layers, blocked_cells, blocked_vias, bga_zones,
                   allowed_cells, source_target_cells, cost_vars, gr, dp, visual_vars>>

set_stub_proximity(gx, gy, cost) ==
    /\ LET key == pack_xy(gx, gy)
           existing == IF key \in DOMAIN stub_proximity THEN stub_proximity[key] ELSE 0
       IN  stub_proximity' =
               IF cost > existing THEN MapPut(stub_proximity, key, cost)
               ELSE stub_proximity
    /\ UNCHANGED <<num_layers, blocked_cells, blocked_vias, bga_zones,
                   allowed_cells, source_target_cells, cost_vars, gr, dp, visual_vars>>

(***************************************************************************)
(* Router calls                                                            *)
(***************************************************************************)
NoCall == [called |-> FALSE]

NoSnapshot == [iteration |-> 0, current |-> NoCell, open_count |-> 0,
               closed_count |-> 0, found |-> FALSE, path |-> NoPath,
               closed_cells |-> {}, open_cells |-> {}]

\* a call of GridRouter.route_multi on the current map
RouteMulti(sources, targets, max_iterations) ==
    /\ LET r == route_multi(sources, targets, max_iterations)
       IN  gr' = [called |-> TRUE, sources |-> sources, targets |-> targets,
                  max_iterations |-> max_iterations,
                  path |-> r.path, iterations |-> r.iterations,
                  search |-> r.search]
    /\ UNCHANGED <<map_vars, cost_vars, visual_vars, dp, map_op>>

\* DiffPairRouter::new(via_cost, h_weight, half_spacing) and a call of its
\* route_diff_pair on the current map
RouteDiffPair(half_spacing, sources, targets, max_iterations) ==
    /\ LET r == route_diff_pair(half_spacing, sources, targets, max_iterations)
       IN  dp' = [called |-> TRUE, half_spacing |-> half_spacing,
                  sources |-> sources, targets |-> targets,
                  max_iterations |-> max_iterations,
                  p_path |-> r.p_path, n_path |-> r.n_path,
                  iterations |-> r.iterations, search |-> r.search]
    /\ UNCHANGED <<map_vars, cost_vars, gr, visual_vars, map_op>>

\* a call of VisualRouter.init
VRInit(sources, targets, max_iterations) ==
    /\ vr' = init(vr, sources, targets, max_iterations)
    /\ vr_call' = [called |-> TRUE, sources |-> sources, targets |-> targets,
                   max_iterations |-> max_iterations]
    /\ vr_step' = NoCall
    /\ UNCHANGED <<map_vars, cost_vars, gr, dp, snap, map_op>>

\* a call of VisualRouter.step on the current map
VRStep(n) ==
    /\ LET r == step(vr, n)
       IN  /\ vr' = r.vr
           /\ snap' = r.snapshot
    /\ vr_step' = [called |-> TRUE, num_iterations |-> n]
    /\ UNCHANGED <<map_vars, cost_vars, gr, dp, vr_call, map_op>>

(***************************************************************************)
(* Specifications                                                          *)
(***************************************************************************)
\* GridObstacleMap::new, GridRouter::new and VisualRouter::new (the two
\* routers are given the same via_cost and h_weight)
Init ==
    /\ NewMap(NumLayers)
    /\ via_cost \in ViaCosts
    /\ h_weight2 \in HWeights2
    /\ gr = NoCall
    /\ vr = NewVisualRouter
    /\ vr_call = NoCall
    /\ snap = NoSnapshot
    /\ vr_step = NoCall
    /\ dp = NoCall
    /\ map_op = NoCall

\* The caller populates the map before a search starts and leaves it alone
\* afterwards; the model stops adding at MaxObstacles entries.
MapOpen == gr = NoCall /\ vr_call = NoCall /\ dp = NoCall
CanAdd == MapOpen /\ MapSize < MaxObstacles

\* the obstacle map alone, every operation
NextMap ==
    \/ \E c \in CellArgs, l \in LayerArgs :
           CanAdd /\ add_blocked_cell(c[1], c[2], l) /\ UNCHANGED map_op
    \/ \E c \in CellArgs : CanAdd /\ add_blocked_via(c[1], c[2]) /\ UNCHANGED map_op
    \/ \E z \in ZoneArgsAny :
           CanAdd /\ Len(bga_zones) < MaxZones /\ set_bga_zone(z[1], z[2], z[3], z[4]) /\ UNCHANGED map_op
    \/ \E c \in CellArgs : CanAdd /\ add_allowed_cell(c[1], c[2]) /\ UNCHANGED map_op
    \/ \E c \in CellArgs, l \in LayerArgs :
           CanAdd /\ add_source_target_cell(c[1], c[2], l) /\ UNCHANGED map_op
    \/ \E c \in CellArgs, k \in CostArgs :
           CanAdd /\ set_stub_proximity(c[1], c[2], k) /\ UNCHANGED map_op
    \/ MapOpen /\ clear_source_target_cells /\ UNCHANGED map_op
    \/ MapOpen /\ clear_stub_proximity /\ UNCHANGED map_op
    \/ MapOpen /\ clear_allowed_cells /\ UNCHANGED map_op

SpecMap == Init /\ [][NextMap]_vars

\* populating the map for a search
Populate ==
    \/ \E c \in BlockedArgs : CanAdd /\ add_blocked_cell(c[1], c[2], c[3]) /\ UNCHANGED map_op
    \/ \E c \in ViaArgs : CanAdd /\ add_blocked_via(c[1], c[2]) /\ UNCHANGED map_op
    \/ \E z \in ZoneArgs :
           CanAdd /\ bga_zones = <<>> /\ set_bga_zone(z[1], z[2], z[3], z[4]) /\ UNCHANGED map_op
    \/ \E c \in AllowedArgs : CanAdd /\ add_allowed_cell(c[1], c[2]) /\ UNCHANGED map_op
    \/ \E c \in ProximityArgs, k \in ProximityCosts :
           CanAdd /\ set_stub_proximity(c[1], c[2], k) /\ UNCHANGED map_op

\* one routing task: populate, then one route_multi call
Next ==
    \/ Populate
    \/ \E s \in SourceLists, t \in TargetLists, m \in IterationLimits :
           gr = NoCall /\ RouteMulti(s, t, m)

Spec == Init /\ [][Next]_vars

\* populating the map for a stepped search: one wall cell, the zone and its
\* allowed cell, the via block and the proximity cost
PopulateVisual ==
    \/ CanAdd /\ add_blocked_cell(0, 0, 0) /\ UNCHANGED map_op
    \/ \E c \in ViaArgs : CanAdd /\ add_blocked_via(c[1], c[2]) /\ UNCHANGED map_op
    \/ \E z \in ZoneArgs :
           CanAdd /\ bga_zones = <<>> /\ set_bga_zone(z[1], z[2], z[3], z[4]) /\ UNCHANGED map_op
    \/ \E c \in AllowedArgs : CanAdd /\ add_allowed_cell(c[1], c[2]) /\ UNCHANGED map_op
    \/ \E c \in ProximityArgs, k \in ProximityCosts :
           CanAdd /\ set_stub_proximity(c[1], c[2], k) /\ UNCHANGED map_op

\* the same task given to the VisualRouter, stepped, and then to route_multi
NextVisual ==
    \/ PopulateVisual
    \/ \E s \in SourceLists, t \in TargetLists, m \in IterationLimits :
           vr_call = NoCall /\ VRInit(s, t, m)
    \/ \E n \in StepSizes : gr = NoCall /\ VRStep(n)
    \/ /\ vr_call # NoCall
       /\ is_done(vr)
       /\ gr = NoCall
       /\ RouteMulti(vr_call.sources, vr_call.targets, vr_call.max_iterations)

SpecVisual == Init /\ [][NextVisual]_vars

\* populating the map for a pair search
PopulatePair ==
    \/ \E c \in PairBlockedArgs :
           CanAdd /\ blocked_cells[0] = {} /\ add_blocked_cell(c[1], c[2], c[3]) /\ UNCHANGED map_op
    \/ \E c \in PairViaArgs : CanAdd /\ add_blocked_via(c[1], c[2]) /\ UNCHANGED map_op
    \/ \E c \in PairProximityArgs : CanAdd /\ set_stub_proximity(c[1], c[2], 900) /\ UNCHANGED map_op

\* one pair routing task: populate, then one route_diff_pair call
NextPair ==
    \/ PopulatePair
    \/ \E h \in HalfSpacings, s \in PairSourceLists, t \in PairTargetLists,
          m \in PairIterationLimits :
           dp = NoCall /\ RouteDiffPair(h, s, t, m)

SpecPair == Init /\ [][NextPair]_vars

\* what a VisualRouter that has been stepped is initialised with again
ReinitSources == {<<GridState(-1, 0, 0)>>, <<>>}
ReinitLimits == {1, MaxIterations}

\* populating the map for the stepping scenarios: one wall cell, one
\* proximity cost
PopulateStepping ==
    \/ CanAdd /\ add_blocked_cell(0, 0, 0) /\ UNCHANGED map_op
    \/ \E c \in ProximityArgs : CanAdd /\ set_stub_proximity(c[1], c[2], 900) /\ UNCHANGED map_op

\* one VisualRouter: init, steps of any size (also after the search is
\* done), and init again once it has been stepped
NextStepping ==
    \/ PopulateStepping
    \/ \E s \in SourceLists, t \in TargetLists, m \in IterationLimits :
           vr_call = NoCall /\ VRInit(s, t, m)
    \/ \E n \in StepSizes : vr_call # NoCall /\ VRStep(n)
    \/ \E s \in ReinitSources, t \in TargetLists, m \in ReinitLimits :
           /\ vr_step # NoCall
           /\ is_done(vr) \/ vr.iterations <= 3
           /\ VRInit(s, t, m)

SpecStepping == Init /\ [][NextStepping]_vars

\* a caller that initialises the VisualRouter once and then calls step again
\* and again, with n >= 1
StepAgain == \E n \in StepSizes : vr_call # NoCall /\ VRStep(n)

NextDriven ==
    \/ PopulateStepping
    \/ \E s \in SourceLists, t \in TargetLists, m \in IterationLimits :
           vr_call = NoCall /\ VRInit(s, t, m)
    \/ StepAgain

\* the caller does not stop calling step: a step call is made again and
\* again.  (WF_vars(StepAgain) says the same here, a step call being
\* possible at any time after init.)
SpecDriven == Init /\ [][NextDriven]_vars /\ []<><<StepAgain>>_vars

\* the three searches on one map: populate, then one route_multi call, or
\* one route_diff_pair call, or one VisualRouter initialised and stepped
NextSearches ==
    \/ PopulateStepping
    \/ \E s \in SourceLists, t \in TargetLists, m \in IterationLimits :
           MapOpen /\ RouteMulti(s, t, m)
    \/ \E h \in HalfSpacings, s \in PairSourceLists, t \in PairTargetLists,
          m \in PairIterationLimits :
           MapOpen /\ RouteDiffPair(h, s, t, m)
    \/ \E s \in SourceLists, t \in TargetLists, m \in IterationLimits :
           MapOpen /\ VRInit(s, t, m)
    \/ \E n \in StepSizes : vr_call # NoCall /\ ~is_done(vr) /\ VRStep(n)

SpecSearches == Init /\ [][NextSearches]_vars

\* the worked examples: a new map and routers
InitExamples ==
    /\ NewMap(NumLayers)
    /\ via_cost \in ExampleViaCosts
    /\ h_weight2 \in HWeights2
    /\ gr = NoCall
    /\ vr = NewVisualRouter
    /\ vr_call = NoCall
    /\ snap = NoSnapshot
    /\ vr_step = NoCall
    /\ dp = NoCall
    /\ map_op = NoCall

\* the map of the worked examples: the zone, allowed cells
PopulateExamples ==
    \/ /\ MapOpen /\ bga_zones = <<>>
       /\ set_bga_zone(ExampleZone[1], ExampleZone[2], ExampleZone[3], ExampleZone[4])
       /\ UNCHANGED map_op
    \/ \E c \in ExampleAllowed :
           /\ MapOpen /\ MapSize < ExampleObstacles
           /\ add_allowed_cell(c[1], c[2])
           /\ UNCHANGED map_op

\* one worked example: populate, then one route_multi call or, on the
\* empty map, one route_diff_pair call
NextExamples ==
    \/ PopulateExamples
    \/ \E t \in ExampleTasks, m \in ExampleLimits :
           MapOpen /\ RouteMulti(<<t[1]>>, <<t[2]>>, m)
    \/ \E t \in ExamplePairTasks, m \in {ExamplePairIterations} :
           /\ MapOpen /\ MapSize = 0
           /\ RouteDiffPair(ExampleHalfSpacing, <<t[1]>>, <<t[2]>>, m)

SpecExamples == InitExamples /\ [][NextExamples]_vars

\* the obstacle map alone, with one router setting
InitMapOps == Init /\ via_cost = 0 /\ h_weight2 = 2

\* the call made by this step is recorded; stored tells whether the cell of
\* a set_stub_proximity call had a cost stored before the call
Recorded(name, args, stored) ==
    map_op' = [called |-> TRUE, op |-> name, args |-> args, stored |-> stored]

\* the obstacle map alone, every operation, each call recorded
NextMapOps ==
    \/ \E c \in OpCells, l \in LayerArgs :
           /\ CanAdd /\ add_blocked_cell(c[1], c[2], l)
           /\ Recorded("add_blocked_cell", <<c[1], c[2], l>>, FALSE)
    \/ \E c \in OpCells :
           /\ CanAdd /\ add_blocked_via(c[1], c[2])
           /\ Recorded("add_blocked_via", c, FALSE)
    \/ \E z \in ZoneArgs :
           /\ CanAdd /\ bga_zones = <<>> /\ set_bga_zone(z[1], z[2], z[3], z[4])
           /\ Recorded("set_bga_zone", z, FALSE)
    \/ \E c \in OpCells :
           /\ CanAdd /\ add_allowed_cell(c[1], c[2])
           /\ Recorded("add_allowed_cell", c, FALSE)
    \/ \E c \in OpCells, l \in LayerArgs :
           /\ CanAdd /\ add_source_target_cell(c[1], c[2], l)
           /\ Recorded("add_source_target_cell", <<c[1], c[2], l>>, FALSE)
    \/ \E c \in OpCells, k \in OpCosts :
           /\ CanAdd /\ set_stub_proximity(c[1], c[2], k)
           /\ Recorded("set_stub_proximity", <<c[1], c[2], k>>,
                       pack_xy(c[1], c[2]) \in DOMAIN stub_proximity)
    \/ /\ MapOpen /\ clear_source_target_cells
       /\ Recorded("clear_source_target_cells", <<>>, FALSE)
    \/ /\ MapOpen /\ clear_stub_proximity
       /\ Recorded("clear_stub_proximity", <<>>, FALSE)
    \/ /\ MapOpen /\ clear_allowed_cells
       /\ Recorded("clear_allowed_cells", <<>>, FALSE)

SpecMapOps == InitMapOps /\ [][NextMapOps]_vars

(***************************************************************************)
(* Claims about the obstacle map (checked under SpecMap)                   *)
(***************************************************************************)
\* the cells the map claims are asked about: the populated ones, a zone
\* corner, a cell of the second zone only, a cell just outside
QueryCells == CellArgs \cup {<<-2, -1>>, <<1, 1>>, <<-3, 0>>}

HardBlocked(c, l) == pack_xy(c[1], c[2]) \in blocked_cells[l]
Overridden(c, l) == pack_xy(c[1], c[2]) \in source_target_cells[l]
Allowed(c) == pack_xy(c[1], c[2]) \in allowed_cells
InAnyZone(c) ==
    \E i \in 1..Len(bga_zones) :
        /\ bga_zones[i][1] <= c[1] /\ c[1] <= bga_zones[i][3]
        /\ bga_zones[i][2] <= c[2] /\ c[2] <= bga_zones[i][4]

\* C2: a cell that is hard-blocked on a layer and not endpoint-overridden
\* there is blocked, whatever zones and allowed-cells exist
C2_HardBlockDominates ==
    \A c \in QueryCells, l \in 0..(num_layers - 1) :
        (HardBlocked(c, l) /\ ~Overridden(c, l)) => is_blocked(c[1], c[2], l)

\* a hard-blocked cell inside a zone that is also an allowed-cell
C2_Witness ==
    \E c \in QueryCells, l \in 0..(num_layers - 1) :
        /\ HardBlocked(c, l) /\ ~Overridden(c, l)
        /\ InAnyZone(c) /\ Allowed(c)
        /\ is_blocked(c[1], c[2], l)

C7_OverrideNeverBeatsZone ==
    \A c \in QueryCells, l \in 0..(num_layers - 1) :
        (InAnyZone(c) /\ ~Allowed(c)) => is_blocked(c[1], c[2], l)

\* C8: is_via_blocked is: true for a blocked via; else true exactly when the
\* position is in at least one zone and not allowed; hard blocks and
\* endpoint-overrides play no part
C8_IsViaBlockedTable ==
    \A c \in QueryCells :
        is_via_blocked(c[1], c[2]) =
            \/ pack_xy(c[1], c[2]) \in blocked_vias
            \/ (InAnyZone(c) /\ ~Allowed(c))

\* two zones, and a position that only the second one holds
C8_Witness ==
    /\ Len(bga_zones) = 2
    /\ \E c \in QueryCells :
           /\ ~InZone(c[1], c[2], bga_zones[1])
           /\ InZone(c[1], c[2], bga_zones[2])
           /\ ~(pack_xy(c[1], c[2]) \in blocked_vias)
           /\ is_via_blocked(c[1], c[2])

(***************************************************************************)
(* Reference definitions for the search claims: legal moves, reachability  *)
(* and cheapest cost, computed without the router.  They look at the       *)
(* populated region and a ring of free cells around it; beyond it the      *)
(* board is free, so no cheaper way leads there.                           *)
(***************************************************************************)
Cell(s) == <<s.gx, s.gy, s.layer>>
CellsOf(list) == {Cell(list[i]) : i \in 1..Len(list)}

BoxCells == ((-3)..2) \X ((-2)..2) \X (0..(num_layers - 1))

PlanarNeighbours(p, c) ==
    /\ p[3] = c[3]
    /\ Abs(p[1] - c[1]) <= 1 /\ Abs(p[2] - c[2]) <= 1
    /\ <<p[1], p[2]>> # <<c[1], c[2]>>

ViaNeighbours(p, c) == p[1] = c[1] /\ p[2] = c[2] /\ p[3] # c[3]

\* a legal planar step enters a cell that is not blocked; a legal via
\* leaves an xy that is not via-blocked for a cell that is not blocked
LegalMove(p, c) ==
    \/ PlanarNeighbours(p, c) /\ ~is_blocked(c[1], c[2], c[3])
    \/ /\ ViaNeighbours(p, c)
       /\ ~is_via_blocked(p[1], p[2])
       /\ ~is_blocked(c[1], c[2], c[3])

\* ORTHO_COST or DIAG_COST plus the proximity cost of the entered cell;
\* via_cost plus twice the proximity cost at the xy
MoveCost(p, c) ==
    IF p[3] = c[3]
    THEN (IF p[1] # c[1] /\ p[2] # c[2] THEN DIAG_COST ELSE ORTHO_COST)
         + get_stub_proximity_cost(c[1], c[2])
    ELSE via_cost + 2 * get_stub_proximity_cost(p[1], p[2])

RECURSIVE ReachableFrom(_)
ReachableFrom(R) ==
    LET more == {c \in BoxCells \ R : \E p \in R : LegalMove(p, c)}
    IN  IF more = {} THEN R ELSE ReachableFrom(R \cup more)

\* the cells some legal path from a source ends in
Reachable(sources) == ReachableFrom(CellsOf(sources))

SetMin(S) == CHOOSE m \in S : \A x \in S : m <= x

Unreachable == I32_MAX

\* one round of relaxation over the reachable cells
Relaxed(D) ==
    [c \in DOMAIN D |->
        SetMin({D[c]} \cup {D[p] + MoveCost(p, c) :
                              p \in {q \in DOMAIN D : D[q] # Unreachable
                                                       /\ LegalMove(q, c)}})]

RECURSIVE Settle(_)
Settle(D) ==
    LET E == Relaxed(D)
    IN  IF E = D THEN D ELSE Settle(E)

\* cheapest cost of a legal path from a source to each reachable cell
\* (via_cost >= 0)
CheapestCosts(sources) ==
    Settle([c \in Reachable(sources) |->
               IF c \in CellsOf(sources) THEN 0 ELSE Unreachable])

RECURSIVE PathCost(_, _)
PathCost(path, i) ==
    IF i >= Len(path) THEN 0
    ELSE MoveCost(path[i], path[i + 1]) + PathCost(path, i + 1)

(***************************************************************************)
(* Claims about GridRouter.route_multi (checked under Spec)                *)
(***************************************************************************)
Returned == gr.called /\ gr.path # NoPath

\* C1: no cell of a returned path is blocked on the map searched, the
\* first (source) cell included
C1_NoBlockedCellOnPath ==
    Returned =>
        \A i \in 1..Len(gr.path) :
            ~is_blocked(gr.path[i][1], gr.path[i][2], gr.path[i][3])

\* C3: a returned path starts at a source, ends at a target, and each step
\* goes to one of the 8 planar neighbours on the layer or changes layer
\* keeping (gx,gy)
C3_PathShape ==
    Returned =>
        /\ gr.path[1] \in CellsOf(gr.sources)
        /\ gr.path[Len(gr.path)] \in CellsOf(gr.targets)
        /\ \A i \in 1..(Len(gr.path) - 1) :
               \/ PlanarNeighbours(gr.path[i], gr.path[i + 1])
               \/ ViaNeighbours(gr.path[i], gr.path[i + 1])

\* a path from the source at x = -1 that takes a via and planar steps
C3_Witness ==
    /\ Returned
    /\ gr.path[1] = <<-1, 0, 0>>
    /\ \E i \in 1..(Len(gr.path) - 1) : ViaNeighbours(gr.path[i], gr.path[i + 1])
    /\ \E i \in 1..(Len(gr.path) - 1) : PlanarNeighbours(gr.path[i], gr.path[i + 1])

\* C4: with h_weight = 1 and via_cost >= 0 the cost of a returned path is
\* the least cost of a legal path from a source to a target
C4_PathIsCheapest ==
    (Returned /\ h_weight2 = 2 /\ via_cost >= 0) =>
        LET D == CheapestCosts(gr.sources)
        IN  PathCost(gr.path, 1) =
                SetMin({D[t] : t \in CellsOf(gr.targets) \cap DOMAIN D})

\* the cheapest path avoids the cell with a proximity cost by a diagonal
\* detour, and costs more than the straight line would
C4_Witness ==
    /\ Returned /\ h_weight2 = 2 /\ via_cost >= 0
    /\ get_stub_proximity_cost(0, 0) > 0
    /\ gr.path[Len(gr.path)] = <<1, 0, 0>>
    /\ ~(<<0, 0, 0>> \in {gr.path[i] : i \in 1..Len(gr.path)})
    /\ PathCost(gr.path, 1) = 2 * DIAG_COST

\* C9: the iteration limit: never more than max_iterations iterations;
\* max_iterations = 0 gives (none, 0) for every input; max_iterations = 1
\* with sources none of which is a target gives (none, 1)
C9_IterationLimit ==
    gr.called =>
        /\ gr.iterations <= gr.max_iterations
        /\ (gr.max_iterations = 0 => (gr.path = NoPath /\ gr.iterations = 0))
        /\ (/\ gr.max_iterations = 1
            /\ gr.sources # <<>>
            /\ CellsOf(gr.sources) \cap CellsOf(gr.targets) = {})
               => (gr.path = NoPath /\ gr.iterations = 1)

\* max_iterations = 0 with a source that is itself a target
C9_Witness ==
    /\ gr.called /\ gr.max_iterations = 0
    /\ CellsOf(gr.sources) \cap CellsOf(gr.targets) # {}
    /\ gr.path = NoPath /\ gr.iterations = 0

\* C10: none is returned only with the open set empty or the limit reached;
\* (none, k) with k < max_iterations means that no legal moves lead from a
\* source to a target; and with a target reachable and max_iterations large
\* enough (MaxIterations, for these boards) a path is returned
C10_NoneOnlyWhenExhaustedOrLimited ==
    gr.called =>
        /\ gr.path = NoPath =>
               (gr.search.open_set = {} \/ gr.iterations >= gr.max_iterations)
        /\ (gr.path = NoPath /\ gr.iterations < gr.max_iterations) =>
               CellsOf(gr.targets) \cap Reachable(gr.sources) = {}
        /\ (/\ CellsOf(gr.targets) \cap Reachable(gr.sources) # {}
            /\ gr.max_iterations = MaxIterations) => gr.path # NoPath

\* the open set ran empty: the source is shut in by the zone and the target
\* lies outside
C10_Witness ==
    /\ gr.called /\ gr.path = NoPath
    /\ gr.sources # <<>> /\ gr.targets # <<>>
    /\ gr.iterations >= 1 /\ gr.iterations < gr.max_iterations
    /\ gr.search.open_set = {}

(***************************************************************************)
(* Claims about the VisualRouter (checked under SpecVisual)                *)
(***************************************************************************)
SameTask ==
    /\ vr_call.called /\ gr.called
    /\ gr.sources = vr_call.sources
    /\ gr.targets = vr_call.targets
    /\ gr.max_iterations = vr_call.max_iterations

\* C5: on the same map, sources, targets, costs and max_iterations, a
\* VisualRouter stepped until is_done() has the path (or none) that
\* route_multi returns
C5_SamePathAsRouteMulti ==
    (SameTask /\ is_done(vr)) => get_path(vr) = gr.path

\* both found a path of three cells or more, the stepped search after three
\* iterations or more
C5_Witness ==
    /\ SameTask /\ is_done(vr)
    /\ vr.found /\ vr.iterations >= 3
    /\ Len(gr.path) >= 3

(***************************************************************************)
(* Claims about the iteration count (checked under Spec)                   *)
(***************************************************************************)
\* entries that have left the heap: every push takes a fresh counter value
EntriesPopped == gr.search.counter - Cardinality(gr.search.open_set)

\* C11 (as stated): the iteration count returned by route_multi equals the
\* number of distinct cells inserted into the closed set; popped entries that
\* are skipped do not add to it
C11_IterationsCountExpansions ==
    gr.called => gr.iterations = Cardinality(gr.search.closed)

\* C11 (amended): the iteration count is the number of heap entries popped
\* under the limit, the skipped ones included: it is never below the number
\* of cells in the closed set, and it equals the number of entries that left
\* the heap, less the one entry that is popped and dropped when the limit
\* ends the search
C11_IterationsCountPops ==
    gr.called =>
        /\ gr.iterations >= Cardinality(gr.search.closed)
        /\ gr.iterations \in {EntriesPopped, EntriesPopped - 1}
        /\ gr.iterations = EntriesPopped - 1 =>
               (gr.path = NoPath /\ gr.iterations = gr.max_iterations)

\* a search, no sum wrapped, that popped an entry of an already closed cell
C11_Witness ==
    /\ gr.called /\ gr.targets # <<>> /\ ~gr.search.overflow
    /\ gr.iterations > Cardinality(gr.search.closed)

(***************************************************************************)
(* Claims about VisualRouter.step and init (checked under SpecStepping)    *)
(***************************************************************************)
\* a transition that ends with vr_step set is a step call: init clears it
\* and nothing else touches the VisualRouter
StepCalled == vr_step'.called

\* C13: a call step(map, n) raises the iteration counter by at most n and
\* never above max_iterations; it performs no iteration when the search was
\* done at the call; it stops at the iteration that finds a target; and it
\* performs all n unless it leaves the search done
C13_StepAtMostN ==
    [][StepCalled =>
          /\ vr'.iterations >= vr.iterations
          /\ vr'.iterations - vr.iterations <= vr_step'.num_iterations
          /\ vr'.iterations <= vr'.max_iterations
          /\ is_done(vr) => vr'.iterations = vr.iterations
          /\ (vr'.found /\ ~vr.found) =>
                 snap'.current \in CellsOf(vr_call.targets)
          /\ ~is_done(vr') =>
                 vr'.iterations = vr.iterations + vr_step'.num_iterations]_vars

\* a call with n = 3 that performed one iteration and left the search done
C13_Witness ==
    /\ vr_step.called /\ vr_step.num_iterations = 3
    /\ vr.iterations = 1 /\ is_done(vr)
    /\ snap.current # NoCell

\* C14: once is_done() is true a further step leaves every field of the
\* search state as it was (open set, g_costs, parents, closed, counter,
\* iterations, found, final path), so is_done(), get_path() and
\* get_iterations() keep their values until the next init
C14_DoneIsStable ==
    [][(is_done(vr) /\ StepCalled) =>
          /\ vr' = vr
          /\ is_done(vr')
          /\ get_path(vr') = get_path(vr)
          /\ get_iterations(vr') = get_iterations(vr)]_vars

\* a found search stepped once more: the last call closed no cell
C14_Witness ==
    /\ vr_step.called /\ vr.found /\ is_done(vr)
    /\ snap.found /\ snap.current = NoCell
    /\ get_path(vr) # NoPath

\* C15: right after init(S, T, m), whatever init and step calls came before,
\* the router equals a freshly constructed router after init(S, T, m)
C15_InitResets ==
    (vr_call.called /\ ~vr_step.called) =>
        vr = init(NewVisualRouter, vr_call.sources, vr_call.targets,
                  vr_call.max_iterations)

\* an init that came after a search that had found its path (the snapshot
\* of that search is still the last one returned)
C15_Witness ==
    /\ vr_call.called /\ ~vr_step.called
    /\ snap.found /\ snap.closed_count >= 2
    /\ vr.open_set # {} /\ vr.closed = {} /\ ~vr.found

\* the cell of the entry popped on the last of up to n iterations from v
RECURSIVE LastPopped(_, _, _)
LastPopped(v, n, last) ==
    IF n = 0 \/ is_done(v) THEN last
    ELSE LET e == HeapTop(v.open_set)
         IN  LastPopped(StepLoop(v, 1, NoCell).vr, n - 1,
                        <<e.state.gx, e.state.gy, e.state.layer>>)

\* the cell that the last of up to n iterations from v to close one put
\* into the closed set
RECURSIVE LastClosed(_, _, _)
LastClosed(v, n, last) ==
    IF n = 0 \/ is_done(v) THEN last
    ELSE LET w == StepLoop(v, 1, NoCell).vr
             new == w.closed \ v.closed
         IN  LastClosed(w, n - 1,
                        IF new = {} THEN last
                        ELSE UnpackKey(CHOOSE k \in new : TRUE))

\* C16 (as stated): the snapshot's current is the cell popped on the final
\* iteration the call performed, and none exactly when it performed none
C16_CurrentIsLastPopped ==
    [][StepCalled =>
          /\ snap'.current = LastPopped(vr, vr_step'.num_iterations, NoCell)
          /\ snap'.current = NoCell <=> vr'.iterations = vr.iterations]_vars

\* C16 (amended): the snapshot's current is the cell of the last popped
\* entry of the call that was not skipped, i.e. the last cell the call put
\* into the closed set, and none exactly when the call closed no cell
C16_CurrentIsLastClosed ==
    [][StepCalled =>
          /\ snap'.current = LastClosed(vr, vr_step'.num_iterations, NoCell)
          /\ snap'.current = NoCell <=> vr'.closed = vr.closed]_vars

\* a call that performed an iteration and reports no current cell: the
\* entry it popped was of a closed cell
C16_Witness ==
    /\ vr_step.called /\ vr_step.num_iterations = 1
    /\ ~is_done(vr) /\ ~vr.overflow
    /\ snap.current = NoCell

(***************************************************************************)
(* Claims about obstacle-map calls (checked under SpecMapOps)              *)
(***************************************************************************)
Max(a, b) == IF a > b THEN a ELSE b

\* the step is a set_stub_proximity call on a cell that the call before it,
\* a set_stub_proximity too, found without a stored cost
SecondCallOnCell ==
    /\ map_op.called /\ map_op.op = "set_stub_proximity" /\ ~map_op.stored
    /\ map_op'.op = "set_stub_proximity"
    /\ map_op'.args[1] = map_op.args[1] /\ map_op'.args[2] = map_op.args[2]

\* the step is a set_stub_proximity call whose cost is not above the cost
\* of the cell
CallNotAboveCost ==
    /\ map_op'.op = "set_stub_proximity"
    /\ map_op'.args[3] <= get_stub_proximity_cost(map_op'.args[1], map_op'.args[2])

\* C21 (as stated): on a cell without a cost, set_stub_proximity(c, x) then
\* set_stub_proximity(c, y) yields proximity_cost(c) = max(x, y); a call
\* with a cost not above the stored one changes nothing
C21_SecondCallYieldsMax ==
    [][/\ SecondCallOnCell =>
              get_stub_proximity_cost(map_op.args[1], map_op.args[2])'
                  = Max(map_op.args[3], map_op'.args[3])
       /\ (CallNotAboveCost /\ map_op'.stored) => UNCHANGED map_vars]_vars

\* C21 (amended): on a cell without a cost, set_stub_proximity(c, x) then
\* set_stub_proximity(c, y) yields proximity_cost(c) = max(0, x, y); a call
\* with a cost not above the stored one, or not above 0 when none is
\* stored, changes nothing
C21_SecondCallYieldsMaxOrZero ==
    [][/\ SecondCallOnCell =>
              get_stub_proximity_cost(map_op.args[1], map_op.args[2])'
                  = Max(0, Max(map_op.args[3], map_op'.args[3]))
       /\ CallNotAboveCost => UNCHANGED map_vars]_vars

\* the last call raised the stored cost of its cell
C21_Witness ==
    /\ map_op.called /\ map_op.op = "set_stub_proximity" /\ map_op.stored
    /\ get_stub_proximity_cost(map_op.args[1], map_op.args[2]) = map_op.args[3]

\* C22: after any sequence of obstacle-map calls, those with negative costs
\* and clear_stub_proximity included, proximity_cost >= 0 for every cell
C22_ProximityNonNegative ==
    /\ \A c \in OpCells \cup QueryCells : get_stub_proximity_cost(c[1], c[2]) >= 0
    /\ \A k \in DOMAIN stub_proximity : stub_proximity[k] >= 0

\* a call with a negative cost was the last one, on a map with a cost stored
C22_Witness ==
    /\ map_op.called /\ map_op.op = "set_stub_proximity" /\ map_op.args[3] < 0
    /\ DOMAIN stub_proximity # {}

\* the step is an add_blocked_cell or add_source_target_cell call with a
\* layer the board lacks
CallOnMissingLayer ==
    /\ map_op'.op \in {"add_blocked_cell", "add_source_target_cell"}
    /\ map_op'.args[3] >= num_layers

\* C23: add_blocked_cell and add_source_target_cell with layer >=
\* num_layers change nothing of the map, and after every call there are
\* num_layers per-layer blocked sets and num_layers per-layer override sets
C23_MissingLayerIsNoOp ==
    [][/\ CallOnMissingLayer => UNCHANGED map_vars
       /\ DOMAIN blocked_cells' = 0..(num_layers' - 1)
       /\ DOMAIN source_target_cells' = 0..(num_layers' - 1)]_vars

\* the last call named a missing layer, on a map that holds a blocked cell
C23_Witness ==
    /\ map_op.called /\ map_op.op = "add_blocked_cell"
    /\ map_op.args[3] >= num_layers
    /\ \E l \in DOMAIN blocked_cells : blocked_cells[l] # {}

\* C24: each clear call empties its own component and leaves num_layers,
\* the blocked cells, the blocked vias, the zones and the two other
\* clearable components as they were
C24_ClearChangesOwnComponent ==
    [][/\ map_op'.op = "clear_source_target_cells" =>
              /\ \A l \in DOMAIN source_target_cells' : source_target_cells'[l] = {}
              /\ UNCHANGED <<num_layers, blocked_cells, blocked_vias, bga_zones,
                             stub_proximity, allowed_cells>>
       /\ map_op'.op = "clear_stub_proximity" =>
              /\ DOMAIN stub_proximity' = {}
              /\ UNCHANGED <<num_layers, blocked_cells, blocked_vias, bga_zones,
                             allowed_cells, source_target_cells>>
       /\ map_op'.op = "clear_allowed_cells" =>
              /\ allowed_cells' = {}
              /\ UNCHANGED <<num_layers, blocked_cells, blocked_vias, bga_zones,
                             stub_proximity, source_target_cells>>]_vars

\* clear_allowed_cells was the last call, on a map that still holds a
\* proximity cost and an endpoint override
C24_Witness ==
    /\ map_op.called /\ map_op.op = "clear_allowed_cells"
    /\ DOMAIN stub_proximity # {}
    /\ \E l \in DOMAIN source_target_cells : source_target_cells[l] # {}

(***************************************************************************)
(* Claims about the worked examples (checked under SpecExamples)           *)
(***************************************************************************)
\* DIAG_COST * min(|dx|,|dy|) + ORTHO_COST * ||dx| - |dy||, plus via_cost if
\* the layers differ
OctileCost(s, t) ==
    LET dx == Abs(s.gx - t.gx)
        dy == Abs(s.gy - t.gy)
    IN  DIAG_COST * Min(dx, dy) + ORTHO_COST * Abs(dx - dy)
        + (IF s.layer # t.layer THEN via_cost ELSE 0)

\* a route_multi call with max_iterations large enough, on the empty map,
\* with h_weight = 1
EmptyBoardCall ==
    /\ gr.called /\ gr.max_iterations = ExampleIterations
    /\ MapSize = 0 /\ h_weight2 = 2

\* the path costs what the heuristic says at the source, and the two
\* examples with via_cost = 5000 give the row of 11 cells and the via
CostIsHeuristic ==
    /\ Returned
    /\ PathCost(gr.path, 1) = OctileCost(gr.sources[1], gr.targets[1])
    /\ (via_cost = 5000 /\ gr.sources[1] = GridState(0, 0, 0)
           /\ gr.targets[1] = GridState(10, 0, 0))
          => gr.path = [i \in 1..11 |-> <<i - 1, 0, 0>>]
    /\ (via_cost = 5000 /\ gr.sources[1] = GridState(0, 0, 0)
           /\ gr.targets[1] = GridState(0, 0, 1))
          => (gr.path = <<<<0, 0, 0>>, <<0, 0, 1>>>> /\ PathCost(gr.path, 1) = 5000)

\* C25 (as stated): on the empty map, one source, one target, h_weight = 1,
\* the cost of the returned path is the heuristic value of the source, for
\* any via_cost
C25_CostIsHeuristic == EmptyBoardCall => CostIsHeuristic

\* C25 (amended): the same with via_cost >= 0
C25_CostIsHeuristicViaCostNonNegative ==
    (EmptyBoardCall /\ via_cost >= 0) => CostIsHeuristic

\* the row of 11 cells with via_cost = 5000
C25_Witness ==
    /\ EmptyBoardCall /\ via_cost = 5000
    /\ Returned /\ Len(gr.path) = 11
    /\ gr.targets[1] = GridState(10, 0, 0)

\* the cell lies in the zone (2,2)-(8,8), bounds included
InExampleZone(x, y) == x \in 2..8 /\ y \in 2..8

\* the example with the zone: source (5,5,0), an allowed cell, target
\* (10,10,0), max_iterations large enough
ZoneExampleCall ==
    /\ gr.called /\ gr.max_iterations = ExampleIterations
    /\ bga_zones = <<ExampleZone>>
    /\ pack_xy(5, 5) \in allowed_cells
    /\ gr.sources = <<GridState(5, 5, 0)>>
    /\ gr.targets = <<GridState(10, 10, 0)>>

\* a path from (5,5,0) to (10,10,0) whose cells inside the zone are
\* allowed cells
PathThroughAllowed ==
    /\ Returned
    /\ gr.path[1] = <<5, 5, 0>>
    /\ gr.path[Len(gr.path)] = <<10, 10, 0>>
    /\ \A i \in 1..Len(gr.path) :
           InExampleZone(gr.path[i][1], gr.path[i][2])
               => pack_xy(gr.path[i][1], gr.path[i][2]) \in allowed_cells

\* C26 (as stated): with the zone (2,2)-(8,8), the source (5,5,0) allowed
\* and target (10,10,0), a path is returned that starts at (5,5,0), reaches
\* (10,10,0) and has only allowed cells inside the zone
C26_PathLeavesZone == ZoneExampleCall => PathThroughAllowed

\* some cell next to (5,5) is an allowed cell
NeighbourAllowed ==
    \E dx \in {-1, 0, 1}, dy \in {-1, 0, 1} :
        <<dx, dy>> # <<0, 0>> /\ pack_xy(5 + dx, 5 + dy) \in allowed_cells

\* C26 (amended): in that example no path is returned when no cell next to
\* (5,5) is an allowed cell; with (6,6), (7,7) and (8,8) allowed too a path
\* is returned; and every path returned starts at (5,5,0), reaches
\* (10,10,0) and has only allowed cells inside the zone
C26_PathLeavesZoneByAllowedCells ==
    ZoneExampleCall =>
        /\ ~NeighbourAllowed => gr.path = NoPath
        /\ (\A c \in ExampleAllowed : pack_xy(c[1], c[2]) \in allowed_cells)
              => Returned
        /\ Returned => PathThroughAllowed

\* the path along the allowed diagonal out of the zone
C26_Witness ==
    /\ ZoneExampleCall
    /\ PathThroughAllowed
    /\ \E i \in 1..Len(gr.path) : gr.path[i] = <<8, 8, 0>>

\* C27: with a zone and no allowed cell, no path is returned for a source
\* inside the zone, its border rows and columns included, and a target
\* outside
C27_NoPathFromInsideZone ==
    (/\ gr.called
     /\ bga_zones = <<ExampleZone>> /\ allowed_cells = {}
     /\ InExampleZone(gr.sources[1].gx, gr.sources[1].gy)
     /\ ~InExampleZone(gr.targets[1].gx, gr.targets[1].gy))
        => gr.path = NoPath

(***************************************************************************)
(* Claims about the order of the open set (checked under SpecVisual)       *)
(***************************************************************************)
\* the entry that comes first by (f_score ascending, counter ascending), and
\* no other entry ties with it
FirstByScoreThenCounter(e, open_set) ==
    \A o \in open_set \ {e} :
        \/ e.f_score < o.f_score
        \/ (e.f_score = o.f_score /\ e.counter < o.counter)

\* every entry carries a counter value of its own, below counter, and the
\* entry popped next is the one first by (f_score, counter)
PopIsDetermined(open_set, counter) ==
    /\ \A e \in open_set : e.counter \in 0..(counter - 1)
    /\ \A a, b \in open_set : a # b => a.counter # b.counter
    /\ open_set # {} => FirstByScoreThenCounter(HeapTop(open_set), open_set)

PairReturned == dp.called /\ dp.p_path # NoPath

\* C17: at every index of a returned pair of paths, index 1 (the source
\* state) included, the P cell and the N cell are not blocked on that layer
C17_PairCellsNotBlocked ==
    PairReturned =>
        \A i \in 1..Len(dp.p_path) :
            /\ ~is_blocked(dp.p_path[i][1], dp.p_path[i][2], dp.p_path[i][3])
            /\ ~is_blocked(dp.n_path[i][1], dp.n_path[i][2], dp.n_path[i][3])

\* the four P - N differences, one for each orientation
PairOffsets(h) == {<<0, 2 * h>>, <<2 * h, 0>>, <<2 * h, 2 * h>>, <<-2 * h, 2 * h>>}

\* C18: the returned P and N paths have the same length and the same layer
\* at every index, and P - N is there one of (0,2h), (2h,0), (2h,2h),
\* (-2h,2h), h being half_spacing
C18_PathsIndexAligned ==
    PairReturned =>
        /\ Len(dp.p_path) = Len(dp.n_path)
        /\ \A i \in 1..Len(dp.p_path) :
               /\ dp.p_path[i][3] = dp.n_path[i][3]
               /\ <<dp.p_path[i][1] - dp.n_path[i][1],
                    dp.p_path[i][2] - dp.n_path[i][2]>>
                      \in PairOffsets(dp.half_spacing)

\* paths of three states or more, one of them in a diagonal orientation
C18_Witness ==
    /\ PairReturned /\ Len(dp.p_path) >= 3
    /\ \E i \in 1..Len(dp.p_path) :
           /\ dp.p_path[i][1] # dp.n_path[i][1]
           /\ dp.p_path[i][2] # dp.n_path[i][2]

\* the centre of an endpoint, the quotient rounded toward zero
CentreOf(e) ==
    <<IF e[1] + e[3] >= 0 THEN (e[1] + e[3]) \div 2 ELSE -((-(e[1] + e[3])) \div 2),
      IF e[2] + e[4] >= 0 THEN (e[2] + e[4]) \div 2 ELSE -((-(e[2] + e[4])) \div 2),
      e[5]>>

\* the centre <<x, y, layer>> lies within Chebyshev distance 5 of a target
\* centre on that target's layer
NearTarget(c) ==
    \E i \in 1..Len(dp.targets) :
        LET t == CentreOf(dp.targets[i])
        IN  /\ c[3] = t[3]
            /\ c[1] - t[1] \in (-5)..5
            /\ c[2] - t[2] \in (-5)..5

\* the centre at index i of the returned paths
PathCentre(i) ==
    <<(dp.p_path[i][1] + dp.n_path[i][1]) \div 2,
      (dp.p_path[i][2] + dp.n_path[i][2]) \div 2,
      dp.p_path[i][3]>>

\* the centre a closed key stands for
KeyCentre(k) ==
    <<IF k[1] >= 131072 THEN k[1] - 262144 ELSE k[1],
      IF k[2] >= 131072 THEN k[2] - 262144 ELSE k[2],
      k[3]>>

\* the popped, not yet closed states are those in closed: a path is
\* returned iff one of them is near a target, and that one is the path's
\* last state
GoalTestIsProximity ==
    /\ PairReturned => NearTarget(PathCentre(Len(dp.p_path)))
    /\ \A k \in dp.search.closed :
           NearTarget(KeyCentre(k)) =>
               (PairReturned /\ KeyCentre(k) = PathCentre(Len(dp.p_path)))

\* C19 (as stated): a popped state ends the search iff it is near a target;
\* the last centre of a returned path is near a target; and a source near a
\* target yields a path of length 1 (max_iterations being 1 at least)
C19_ProximityGoalAnySource ==
    dp.called =>
        /\ GoalTestIsProximity
        /\ (/\ dp.max_iterations >= 1 /\ dp.targets # <<>>
            /\ \E i \in 1..Len(dp.sources) : NearTarget(CentreOf(dp.sources[i])))
               => (PairReturned /\ Len(dp.p_path) = 1)

\* the source that is popped first: least heuristic value, the earliest in
\* the list among equals
FirstPoppedSource ==
    HeapTop(PairPushSources(EmptySearch, EndpointStates(dp.sources),
                            EndpointStates(dp.targets), 1).open_set).state

\* C19 (amended): as stated, but a source near a target yields a path of
\* length 1 (after one iteration) when it is the state popped first, with
\* max_iterations 1 at least
C19_ProximityGoalFirstSource ==
    dp.called =>
        /\ GoalTestIsProximity
        /\ (/\ dp.max_iterations >= 1 /\ dp.targets # <<>> /\ dp.sources # <<>>
            /\ NearTarget(<<FirstPoppedSource.gx, FirstPoppedSource.gy,
                            FirstPoppedSource.layer>>))
               => (PairReturned /\ Len(dp.p_path) = 1 /\ dp.iterations = 1)

\* the second source was popped first, was not near the target, and the
\* path leads from it into the tolerance; the first source was near
C19_Witness ==
    /\ PairReturned /\ Len(dp.p_path) = 2 /\ Len(dp.sources) = 2
    /\ NearTarget(CentreOf(dp.sources[1]))
    /\ ~NearTarget(PathCentre(1))
    /\ NearTarget(PathCentre(2))

\* the planar moves recorded in the parent map: <<dx, dy, orientation of
\* the state moved to>>
PlanarMovesMade ==
    {<<KeyCentre(k)[1] - KeyCentre(dp.search.parents[k])[1],
       KeyCentre(k)[2] - KeyCentre(dp.search.parents[k])[2],
       k[4]>> :
        k \in {x \in DOMAIN dp.search.parents : x[3] = dp.search.parents[x][3]}}

\* the table with the directions named as in the single-trace list:
\* NE = (1,-1), SW = (-1,1), NW = (-1,-1), SE = (1,1)
OrientationsByCompass(dx, dy) ==
    IF dy = 0 THEN <<0, 2, 3>>
    ELSE IF dx = 0 THEN <<1, 2, 3>>
    ELSE IF dx = -dy THEN <<3, 0, 1>>
    ELSE <<2, 0, 1>>

\* the table by step: (1,1) and (-1,-1) -> 3,0,1; (1,-1) and (-1,1) -> 2,0,1
OrientationsByStep(dx, dy) ==
    IF dy = 0 THEN <<0, 2, 3>>
    ELSE IF dx = 0 THEN <<1, 2, 3>>
    ELSE IF dx = dy THEN <<3, 0, 1>>
    ELSE <<2, 0, 1>>

SeqRange(q) == {q[i] : i \in 1..Len(q)}

\* C20 (as stated): the orientations tried for a planar step are E, W ->
\* 0,2,3; N, S -> 1,2,3; NE, SW -> 3,0,1; NW, SE -> 2,0,1, with NE = (1,-1)
\* and so on, and no state is generated in another orientation
C20_OrientationsByCompass ==
    dp.called =>
        /\ \A i \in 1..Len(DIRECTIONS), o \in 0..3 :
               get_valid_orientations(DIRECTIONS[i][1], DIRECTIONS[i][2], o)
                   = OrientationsByCompass(DIRECTIONS[i][1], DIRECTIONS[i][2])
        /\ \A mv \in PlanarMovesMade :
               mv[3] \in SeqRange(OrientationsByCompass(mv[1], mv[2]))

\* C20 (amended): the orientations tried for a planar step (dx, dy) are, in
\* order: (1,0), (-1,0) -> 0,2,3; (0,1), (0,-1) -> 1,2,3; (1,1), (-1,-1)
\* -> 3,0,1; (1,-1), (-1,1) -> 2,0,1; no state is generated in another
\* orientation
C20_OrientationsByStep ==
    dp.called =>
        /\ \A i \in 1..Len(DIRECTIONS), o \in 0..3 :
               get_valid_orientations(DIRECTIONS[i][1], DIRECTIONS[i][2], o)
                   = OrientationsByStep(DIRECTIONS[i][1], DIRECTIONS[i][2])
        /\ \A mv \in PlanarMovesMade :
               mv[3] \in SeqRange(OrientationsByStep(mv[1], mv[2]))

\* a search that generated a state in orientation 2 by a step (1,-1) and
\* one in orientation 3 by a step (1,1)
C20_Witness ==
    /\ dp.called
    /\ <<1, -1, 2>> \in PlanarMovesMade
    /\ <<1, 1, 3>> \in PlanarMovesMade

(***************************************************************************)
(* Claims about the worked pair example and the keys (checked under        *)
(* SpecExamples)                                                           *)
(***************************************************************************)
\* the example with the pair: half_spacing 2, h_weight = 1, source P = (0,2),
\* N = (0,-2) on layer 0, target centre (20,0) on layer 0 in orientation 0,
\* on the empty map, max_iterations large enough
PairExampleCall ==
    /\ dp.called /\ dp.half_spacing = ExampleHalfSpacing /\ h_weight2 = 2
    /\ dp.sources = <<<<0, 2, 0, -2, 0>>>>
    /\ dp.targets = <<<<20, 2, 20, -2, 0>>>>
    /\ dp.max_iterations = ExamplePairIterations

\* the keys of the centre states from the source to the state of key k,
\* following the parent map
RECURSIVE CentreStates(_, _)
CentreStates(parents, k) ==
    IF k \in DOMAIN parents
    THEN Append(CentreStates(parents, parents[k]), k)
    ELSE <<k>>

\* the closed states near the target: the search ends at the first
GoalKeys == {k \in dp.search.closed : NearTarget(KeyCentre(k))}

\* C28: in the pair example a pair of paths is returned, every cell of p_path
\* has y = 2, every cell of n_path has y = -2, and both have as many cells as
\* there are centre states from the source to the state that ended the search
C28_PairExampleRows ==
    PairExampleCall =>
        /\ PairReturned
        /\ \A i \in 1..Len(dp.p_path) : dp.p_path[i][2] = 2
        /\ \A i \in 1..Len(dp.n_path) : dp.n_path[i][2] = -2
        /\ GoalKeys # {}
        /\ \A k \in GoalKeys :
               /\ Len(dp.p_path) = Len(CentreStates(dp.search.parents, k))
               /\ Len(dp.n_path) = Len(CentreStates(dp.search.parents, k))
               /\ \A i \in 1..Len(CentreStates(dp.search.parents, k)) :
                      CentreStates(dp.search.parents, k)[i][4] = 0

\* the two rows from x = 0 to x = 15, where the centre comes within the
\* tolerance of the target
C28_Witness ==
    /\ PairExampleCall /\ PairReturned
    /\ Len(dp.p_path) = 16
    /\ dp.p_path[16] = <<15, 2, 0>> /\ dp.n_path[16] = <<15, -2, 0>>

\* unpacking the key of a cell, and of a pair state, gives the cell and the
\* state back, at the ends of the ranges; different cells have different
\* keys, and so have different pair states
KeysRoundTrip ==
    /\ \A x \in KeyCoords20, y \in KeyCoords20, l \in KeyLayers :
           UnpackKey(as_key(GridState(x, y, l))) = <<x, y, l>>
    /\ \A x1 \in KeyCoords20, y1 \in KeyCoords20, l1 \in KeyLayers,
          x2 \in KeyCoords20, y2 \in KeyCoords20, l2 \in KeyLayers :
           as_key(GridState(x1, y1, l1)) = as_key(GridState(x2, y2, l2))
               => <<x1, y1, l1>> = <<x2, y2, l2>>
    /\ \A x \in KeyCoords18, y \in KeyCoords18, l \in KeyLayers,
          o \in KeyOrientations :
           PairUnpackKey(pair_as_key(DiffPairState(x, y, l, o)))
               = DiffPairState(x, y, l, o)
    /\ \A x1 \in KeyCoords18, y1 \in KeyCoords18, l1 \in KeyLayers,
          x2 \in KeyCoords18, y2 \in KeyCoords18, l2 \in KeyLayers :
           \A o1 \in KeyOrientations, o2 \in KeyOrientations :
               pair_as_key(DiffPairState(x1, y1, l1, o1))
                     = pair_as_key(DiffPairState(x2, y2, l2, o2))
                   => <<x1, y1, l1, o1>> = <<x2, y2, l2, o2>>

\* C29: the key of a cell with gx, gy in [-2^19, 2^19 - 1] and layer in
\* 0..255 unpacks to that cell, and different cells have different keys; the
\* key of a pair state with gx, gy in [-2^17, 2^17 - 1] unpacks to that
\* state.  So a returned path starts at the cell of a source and ends at the
\* cell of a target, and a returned pair of paths starts at the two
\* endpoints of a source
C29_KeyRoundTrip ==
    /\ KeysRoundTrip
    /\ Returned =>
           /\ \E i \in 1..Len(gr.sources) :
                  gr.path[1] = <<gr.sources[i].gx, gr.sources[i].gy,
                                 gr.sources[i].layer>>
           /\ \E i \in 1..Len(gr.targets) :
                  gr.path[Len(gr.path)] = <<gr.targets[i].gx, gr.targets[i].gy,
                                            gr.targets[i].layer>>
    /\ PairReturned =>
           \E i \in 1..Len(dp.sources) :
               /\ dp.p_path[1] = <<dp.sources[i][1], dp.sources[i][2],
                                   dp.sources[i][5]>>
               /\ dp.n_path[1] = <<dp.sources[i][3], dp.sources[i][4],
                                   dp.sources[i][5]>>

\* a path of the one cell (-2^19, -1) on layer 1, both coordinates stored
\* with bit 19 set
C29_Witness ==
    /\ Returned /\ gr.path = <<<<-524288, -1, 1>>>>
    /\ as_key(gr.sources[1]) = <<524288, 1048575, 1>>

(***************************************************************************)
(* Claims about splitting a search into steps (checked under SpecStepping) *)
(***************************************************************************)
\* the router after init and one call step(map, max_iterations), for the
\* task of the last init call
SingleStep ==
    step(init(NewVisualRouter, vr_call.sources, vr_call.targets,
              vr_call.max_iterations),
         vr_call.max_iterations).vr

\* C30: however the iterations were split across step calls, once the
\* search is done its path, found flag, iteration count, closed set and
\* g_costs are those of a single call step(map, max_iterations)
C30_SplitDoesNotMatter ==
    (vr_call.called /\ is_done(vr)) =>
        /\ vr.final_path = SingleStep.final_path
        /\ vr.found = SingleStep.found
        /\ vr.iterations = SingleStep.iterations
        /\ vr.closed = SingleStep.closed
        /\ vr.g_costs = SingleStep.g_costs

\* a search that found a path after steps of both sizes, the last of them
\* of three iterations
C30_Witness ==
    /\ vr_call.called /\ is_done(vr) /\ vr.found
    /\ Len(vr.final_path) >= 3
    /\ vr.iterations >= 4 /\ vr.iterations % 3 # 0
    /\ vr_step.called /\ vr_step.num_iterations = 3

(***************************************************************************)
(* Claims about the iteration counts of the two single-trace searches      *)
(* (checked under SpecVisual)                                              *)
(***************************************************************************)
\* the three ways a stepped search is done
FoundOutcome == vr.found
ExhaustedOutcome == ~vr.found /\ vr.open_set = {}
LimitOutcome ==
    ~vr.found /\ vr.open_set # {} /\ vr.iterations >= vr.max_iterations

\* C31: for the same map, sources, targets, costs and max_iterations, the
\* iteration count of a VisualRouter stepped until is_done() is the count
\* route_multi returns, whether the target was found, the open set ran empty
\* or max_iterations was reached
C31_SameIterationCount ==
    (SameTask /\ is_done(vr)) =>
        /\ FoundOutcome \/ ExhaustedOutcome \/ LimitOutcome
        /\ get_iterations(vr) = gr.iterations

\* both searches stopped at the limit, entries left in the open set, after
\* more than one iteration
C31_Witness ==
    /\ SameTask /\ LimitOutcome
    /\ vr.max_iterations > 1
    /\ gr.iterations = vr.max_iterations
    /\ gr.search.open_set # {}

(***************************************************************************)
(* Claims about a search driven by repeated step calls (checked under      *)
(* SpecDriven)                                                             *)
(***************************************************************************)
\* a step call made while the search is not done raises the iteration
\* counter, which stays within max_iterations
StepMakesProgress ==
    (StepCalled /\ vr_call.called /\ ~is_done(vr)) =>
        /\ vr'.iterations > vr.iterations
        /\ vr'.iterations <= vr'.max_iterations
        /\ vr'.max_iterations = vr.max_iterations

\* C32: under repeated calls step(map, n), n >= 1, on an initialised
\* VisualRouter, is_done() becomes true: every step call made while
\* is_done() is false raises the iteration counter, which max_iterations
\* bounds
C32_EventuallyDone ==
    /\ [][StepMakesProgress]_vars
    /\ vr_call.called ~> is_done(vr)

\* a search that was not done after its first step calls and is done at the
\* limit, no target found and entries left in the open set
C32_Witness ==
    /\ vr_call.called /\ vr_step.called
    /\ is_done(vr) /\ ~vr.found /\ vr.open_set # {}
    /\ vr.iterations = MaxIterations

(***************************************************************************)
(* Claims about the states of a VisualRouter (checked under SpecStepping)  *)
(***************************************************************************)
\* C33: in every state a VisualRouter reaches by init and step calls:
\* iterations <= max_iterations; found is true exactly when the final path
\* is present; when found, the last cell of the final path is a target and
\* is in closed; closed has no more cells than iterations; and every closed
\* cell has a g-cost recorded
C33_RouterInvariants ==
    /\ vr.iterations <= vr.max_iterations
    /\ vr.found <=> (vr.final_path # NoPath)
    /\ vr.found =>
           /\ vr.final_path[Len(vr.final_path)] \in CellsOf(vr_call.targets)
           /\ \E k \in vr.closed : UnpackKey(k) = vr.final_path[Len(vr.final_path)]
    /\ Cardinality(vr.closed) <= vr.iterations
    /\ vr.closed \subseteq DOMAIN vr.g_costs

\* a search stepped to a path of two cells or more, with several cells
\* closed
C33_Witness ==
    /\ vr_call.called /\ vr_step.called /\ vr.found
    /\ Len(vr.final_path) >= 2
    /\ Cardinality(vr.closed) >= 2

(***************************************************************************)
(* Claims about the parent map of the three searches (checked under        *)
(* SpecSearches)                                                           *)
(***************************************************************************)
\* the key the parent chain of k ends in, or none when no end is reached
\* within n steps
NoKey == <<>>
RECURSIVE ChainEnd(_, _, _)
ChainEnd(parents, k, n) ==
    IF ~(k \in DOMAIN parents) THEN k
    ELSE IF n = 0 THEN NoKey
    ELSE ChainEnd(parents, parents[k], n - 1)

\* the cost of the pair move from the state of key pk to the state of key k:
\* a planar move (with 500 for a change of orientation, and the proximity
\* costs of the cells entered) or a via (twice via_cost, and twice the
\* proximity costs of the cells left)
PairMoveCost(pk, k, half_spacing) ==
    LET from == PairUnpackKey(pk)
        to == PairUnpackKey(k)
        fp == p_pos(from, half_spacing)
        fn == n_pos(from, half_spacing)
        tp == p_pos(to, half_spacing)
        tn == n_pos(to, half_spacing)
    IN  IF from.layer = to.layer
        THEN (IF from.gx # to.gx /\ from.gy # to.gy THEN DIAG_COST ELSE ORTHO_COST)
             + (IF from.orientation # to.orientation THEN 500 ELSE 0)
             + get_stub_proximity_cost(tp[1], tp[2])
             + get_stub_proximity_cost(tn[1], tn[2])
        ELSE 2 * via_cost
             + 2 * (get_stub_proximity_cost(fp[1], fp[2])
                    + get_stub_proximity_cost(fn[1], fn[2]))

\* what a search state st shows of its parent map: every parent is a closed
\* cell; every chain of parents ends, and ends in a source without parent;
\* every closed cell has a g-cost; with via_cost >= 0 no source has a parent
ParentsLeadToSource(st, source_keys) ==
    /\ \A k \in DOMAIN st.parents : st.parents[k] \in st.closed
    /\ \A k \in DOMAIN st.parents :
           ChainEnd(st.parents, k, Cardinality(DOMAIN st.parents))
               \in source_keys \ DOMAIN st.parents
    /\ st.closed \subseteq DOMAIN st.g_costs
    /\ via_cost >= 0 => source_keys \cap DOMAIN st.parents = {}

\* the g-cost of a cell is that of its parent plus the cost of the move, the
\* parent's g-cost being what it was when the parent was closed.  (When an
\* f_score has wrapped, a cell can be closed by an entry that is not its
\* cheapest, and its neighbours are then costed from that entry's g_score.)
CostsFollowParents(st) ==
    ~st.overflow =>
        \A k \in DOMAIN st.parents :
            st.g_costs[k] = st.g_costs[st.parents[k]]
                            + MoveCost(UnpackKey(st.parents[k]), UnpackKey(k))

PairCostsFollowParents(st, half_spacing) ==
    ~st.overflow =>
        \A k \in DOMAIN st.parents :
            st.g_costs[k] = st.g_costs[st.parents[k]]
                            + PairMoveCost(st.parents[k], k, half_spacing)

SourceKeys(sources) == {as_key(sources[i]) : i \in 1..Len(sources)}

PairSourceKeys(sources) ==
    {pair_as_key(EndpointState(sources[i])) : i \in 1..Len(sources)}

\* the state of each of the three searches
SearchesWellFounded ==
    /\ gr.called =>
           /\ ParentsLeadToSource(gr.search, SourceKeys(gr.sources))
           /\ CostsFollowParents(gr.search)
    /\ dp.called =>
           /\ ParentsLeadToSource(dp.search, PairSourceKeys(dp.sources))
           /\ PairCostsFollowParents(dp.search, dp.half_spacing)
    /\ vr_call.called =>
           /\ ParentsLeadToSource(vr, SourceKeys(vr_call.sources))
           /\ CostsFollowParents(vr)

\* a step call writes a parent only for a cell that was not closed, leaves
\* the parent and the g-cost of every closed cell as they were, and closes
\* at most one cell per iteration, none of them closed before
StepKeepsClosedCells ==
    StepCalled =>
        /\ \A k \in DOMAIN vr'.parents :
               (k \notin DOMAIN vr.parents \/ vr'.parents[k] # vr.parents[k])
                   => (k \notin vr.closed /\ vr'.parents[k] \in vr'.closed)
        /\ \A k \in vr.closed :
               /\ k \in vr'.closed
               /\ vr'.g_costs[k] = vr.g_costs[k]
               /\ (k \in DOMAIN vr'.parents) = (k \in DOMAIN vr.parents)
               /\ k \in DOMAIN vr.parents => vr'.parents[k] = vr.parents[k]
        /\ Cardinality(vr'.closed \ vr.closed) <= vr'.iterations - vr.iterations

\* C34: in all three searches the parent map is acyclic and the chain of
\* parents ends at a source: a parent is written only for a cell that is not
\* closed and is a closed cell, the parent and g-cost of a closed cell do
\* not change, a cell is expanded at most once, and with via_cost >= 0 no
\* source gets a parent
C34_ParentsAcyclic == [][SearchesWellFounded' /\ StepKeepsClosedCells]_vars

\* a pair search whose parent chain has three states or more
C34_Witness ==
    /\ dp.called /\ PairReturned /\ Len(dp.p_path) >= 3
    /\ DOMAIN dp.search.parents # {}

(***************************************************************************)
(* Claims about the 32-bit sums of route_multi (checked under Spec)        *)
(***************************************************************************)
\* C35: for every route_multi call with sources, an empty target list
\* included, the sums new_g = g + step cost and f = new_g + h stay within
\* the i32 range, and with an empty target list the call returns (none,
\* iterations) with iterations <= max_iterations
C35_SumsStayInRange ==
    (gr.called /\ gr.sources # <<>>) =>
        /\ ~gr.search.overflow
        /\ gr.targets = <<>> =>
               (gr.path = NoPath /\ gr.iterations <= gr.max_iterations)

====
